---- MODULE Spec2Model ----
(***************************************************************************)
(* Reconciliation engine of the CRM dashboard: the sync handlers           *)
(* (syncTrials, syncGuests, syncAll), the platform utilities they use and  *)
(* the webhook handlers that write the same tables.                        *)
(*                                                                         *)
(* Tables are sequences of rows in insertion order; the serial id of a     *)
(* conversion row is its position.  Nullable string columns hold NULL.     *)
(* Timestamps are ISO date strings; DateRank gives their order.            *)
(* A row of trial_bookings stands for `rows` consecutive rows that agree   *)
(* on memberId and city, so that the 999-candidate ceiling of syncTrials   *)
(* is reachable with its real value.                                       *)
(* The platform variable holds, per tenant, what the bulk adapters         *)
(* getAllMembersWithContracts and getAllMemberProducts return.             *)
(***************************************************************************)
EXTENDS Integers, Sequences, FiniteSets, TLC

NULL == "NULL"

\* ------------------------------------------------------------------------
\* Value domains
\* ------------------------------------------------------------------------
Dates == {"2024-03-01", "2024-04-01", "2024-05-10"}

\* new Date().toISOString(): later than every date above
Now == "2024-06-01"

\* order of ISO timestamps (string comparison and Date.getTime agree on it)
DateRank(d) ==
  CASE d = "2024-03-01" -> 1
    [] d = "2024-04-01" -> 2
    [] d = "2024-05-10" -> 3
    [] d = "2024-06-01" -> 4
    [] OTHER -> 0

MemberIds == {"500", "501"}

\* plan names are sequences of characters
PlanLoyaltyFlex == <<"L","o","y","a","l","t","y"," ","F","l","e","x">>
PlanFlex == <<"F","l","e","x">>
PlanBasic == <<"B","a","s","i","c">>
PlanNames == {PlanLoyaltyFlex, PlanFlex, PlanBasic, <<>>}

toLowerCaseChar(ch) ==
  CASE ch = "L" -> "l"
    [] ch = "F" -> "f"
    [] ch = "B" -> "b"
    [] OTHER -> ch

toLowerCase(s) == [i \in 1..Len(s) |-> toLowerCaseChar(s[i])]

includes(s, sub) ==
  \E i \in 1..(Len(s) + 1) :
     /\ i + Len(sub) - 1 <= Len(s)
     /\ SubSeq(s, i, i + Len(sub) - 1) = sub

\* ------------------------------------------------------------------------
\* perfectgym-utils
\* ------------------------------------------------------------------------
\* an undefined plan name: a sequence that is not a string of characters
UndefinedName == <<NULL>>

\* paymentPlanName || ''
orEmptyString(paymentPlanName) ==
  IF paymentPlanName = UndefinedName THEN <<>> ELSE paymentPlanName

\* variant: flex is looked for before loyalty
mapMembershipTypeFlexFirst(paymentPlanName) ==
  LET name == toLowerCase(orEmptyString(paymentPlanName))
  IN IF includes(name, <<"f","l","e","x">>) THEN "flex"
     ELSE IF includes(name, <<"l","o","y","a","l","t","y">>) THEN "loyalty"
     ELSE "flex"

mapMembershipType(paymentPlanName) ==
  LET name == toLowerCase(orEmptyString(paymentPlanName))
  IN IF includes(name, <<"l","o","y","a","l","t","y">>) THEN "loyalty"
     ELSE IF includes(name, <<"f","l","e","x">>) THEN "flex"
     ELSE "flex"

\* the copy of mapMembershipType in the webhook's conversion handler
mapMembershipTypeOfWebhook(paymentPlanName) ==
  LET name == toLowerCase(orEmptyString(paymentPlanName))
  IN IF includes(name, <<"l","o","y","a","l","t","y">>) THEN "loyalty"
     ELSE IF includes(name, <<"f","l","e","x">>) THEN "flex"
     ELSE "flex"

\* city.toLowerCase().trim() on the labels that occur
normalizedCity(city) ==
  CASE city = "Berlin" -> "berlin"
    [] city = " berlin" -> "berlin"
    [] OTHER -> city

cityToCountry(n) ==
  CASE n = "amsterdam" -> "NL"
    [] n = "antwerp" -> "NL"
    [] n = "antwerpen" -> "NL"
    [] n = "rotterdam" -> "NL"
    [] n = "berlin" -> "DE"
    [] n = "cologne" -> "DE"
    [] n = "munich" -> "DE"
    [] n = "basel" -> "CH"
    [] n = "zurich" -> "CH"
    [] n = "vienna" -> "AT"
    [] OTHER -> NULL

getCountryFromCity(city) == cityToCountry(normalizedCity(city))

homeClubIdToCity(country, homeClubId) ==
  CASE country = "NL" /\ homeClubId = 1 -> "amsterdam"
    [] country = "NL" /\ homeClubId = 5 -> "rotterdam"
    [] country = "NL" /\ homeClubId = 6 -> "antwerpen"
    [] country = "DE" /\ homeClubId = 1 -> "berlin"
    [] country = "DE" /\ homeClubId = 5 -> "cologne"
    [] country = "DE" /\ homeClubId = 6 -> "munich"
    [] country = "CH" /\ homeClubId = 1 -> "zurich"
    [] country = "CH" /\ homeClubId = 4 -> "basel"
    [] country = "AT" /\ homeClubId = 1 -> "vienna"
    [] OTHER -> NULL

\* homeClubId 0 stands for a missing (falsy) homeClubId
getCityFromHomeClubId(country, homeClubId) ==
  IF homeClubId = 0 THEN NULL ELSE homeClubIdToCity(country, homeClubId)

Countries == {"NL", "DE", "CH", "AT"}

countryParamMap(countryParam) ==
  CASE countryParam = "nl" -> "NL"
    [] countryParam = "de" -> "DE"
    [] countryParam = "ch" -> "CH"
    [] countryParam = "at" -> "AT"
    [] OTHER -> NULL

\* credentials are present in the environment for these platforms only
ConfiguredCountries == {"NL", "DE"}

getPerfectGymConfig(country) ==
  IF country \in Countries /\ country \in ConfiguredCountries THEN country ELSE NULL

\* ------------------------------------------------------------------------
\* State
\* ------------------------------------------------------------------------
VARIABLES
  conversions,   \* table conversions: rows [memberId, city, memberSince, membershipType, source, hadCourseStep]
  guests,        \* table guests: rows [memberId, creditsLeft, city, startDate, packageSize, convertedAt]
  trialBookings, \* table trial_bookings: rows [memberId, city, rows]
  platform,      \* per tenant: what the bulk endpoints return: [members, products]
  pending,       \* platform events that have not happened yet
  req,           \* the last request or event, with the bulk fetch failure the run met
  resp,          \* its response
  runs           \* sync runs in progress (interleaved executions only)

vars == <<conversions, guests, trialBookings, platform, pending, req, resp, runs>>
tables == <<conversions, guests, trialBookings>>

\* ------------------------------------------------------------------------
\* Store helpers
\* ------------------------------------------------------------------------
isTerminal(membershipType) == membershipType \in {"flex", "loyalty"}

\* variant: the insert leaves the city column empty
insertConversionWithoutCity(conv, memberId, city, memberSince, membershipType, source, hadCourseStep) ==
  Append(conv, [memberId |-> memberId, city |-> NULL, memberSince |-> memberSince,
                membershipType |-> membershipType, source |-> source,
                hadCourseStep |-> hadCourseStep])

\* db.insert(conversions).values(...)
insertConversion(conv, memberId, city, memberSince, membershipType, source, hadCourseStep) ==
  Append(conv, [memberId |-> memberId, city |-> city, memberSince |-> memberSince,
                membershipType |-> membershipType, source |-> source,
                hadCourseStep |-> hadCourseStep])

RECURSIVE SumRows(_)
SumRows(ts) == IF ts = <<>> THEN 0 ELSE Head(ts).rows + SumRows(Tail(ts))

\* Array.prototype.slice(0, n) on the rows the groups stand for
RECURSIVE sliceRows(_, _)
sliceRows(ts, n) ==
  IF ts = <<>> \/ n <= 0 THEN <<>>
  ELSE IF Head(ts).rows <= n
       THEN <<Head(ts)>> \o sliceRows(Tail(ts), n - Head(ts).rows)
       ELSE <<[Head(ts) EXCEPT !.rows = n]>>

\* ------------------------------------------------------------------------
\* syncTrials
\* ------------------------------------------------------------------------
maxTrials == 999

existingMemberCitySet(conv) ==
  { <<conv[i].memberId, conv[i].city>> :
      i \in { j \in 1..Len(conv) : conv[j].memberId # NULL /\ conv[j].city # NULL } }

allTrialsWithMember(trials) == SelectSeq(trials, LAMBDA t : t.memberId # NULL)

trialsToCheck(conv, trials) ==
  SelectSeq(allTrialsWithMember(trials),
            LAMBDA t : /\ t.memberId # NULL
                       /\ t.city # NULL
                       /\ <<t.memberId, t.city>> \notin existingMemberCitySet(conv))

\* variant: every eligible row is processed
trialsToProcessAll(conv, trials) == trialsToCheck(conv, trials)

trialsToProcess(conv, trials) == sliceRows(trialsToCheck(conv, trials), maxTrials)

\* keys of the Map trialsByCountry, in insertion order
RECURSIVE countryOrder(_, _)
countryOrder(ts, seen) ==
  IF ts = <<>> THEN <<>>
  ELSE LET c == getCountryFromCity(Head(ts).city)
       IN IF c = NULL \/ c \in seen THEN countryOrder(Tail(ts), seen)
          ELSE <<c>> \o countryOrder(Tail(ts), seen \cup {c})

countryTrials(ts, country) ==
  SelectSeq(ts, LAMBDA t : getCountryFromCity(t.city) = country)

\* membersMap: memberId -> newest contract (contracts[0]) of the bulk result
validMembers(members) ==
  { i \in 1..Len(members) :
      /\ Len(members[i].contracts) > 0
      /\ members[i].contracts[1].startDate # NULL }

membersMapOf(members) ==
  LET ids == { members[i].id : i \in validMembers(members) }
      last(id) == CHOOSE i \in validMembers(members) :
                    /\ members[i].id = id
                    /\ \A j \in validMembers(members) : members[j].id = id => j <= i
  IN [ id \in ids |->
         [startDate |-> members[last(id)].contracts[1].startDate,
          membershipType |-> mapMembershipType(members[last(id)].contracts[1].paymentPlanName)] ]

\* variant: only the 10-session package counts as a course package
isCoursePackageTenOnly(product) == product.initialQuantity = 10

isCoursePackage(product) == product.initialQuantity = 10 \/ product.initialQuantity = 16

\* a fold that keeps the course package purchase returned first, whatever its date
RECURSIVE purchasesMapFirst(_, _)
purchasesMapFirst(products, map) ==
  IF products = <<>> THEN map
  ELSE LET product == Head(products)
           memberId == product.memberId
       IN purchasesMapFirst(Tail(products),
            IF isCoursePackage(product) /\ memberId \notin DOMAIN map
            THEN [ m \in DOMAIN map \cup {memberId} |->
                     IF m = memberId
                     THEN [purchaseDate |-> IF product.purchaseDate # NULL
                                            THEN product.purchaseDate ELSE Now]
                     ELSE map[m] ]
            ELSE map)

\* purchasesMap: memberId -> newest course package purchase
RECURSIVE purchasesMapFold(_, _)
purchasesMapFold(products, map) ==
  IF products = <<>> THEN map
  ELSE LET product == Head(products)
           memberId == product.memberId
           replace == /\ isCoursePackage(product)
                      /\ \/ memberId \notin DOMAIN map
                         \/ /\ product.purchaseDate # NULL
                            /\ DateRank(map[memberId].purchaseDate) < DateRank(product.purchaseDate)
       IN purchasesMapFold(Tail(products),
            IF replace
            THEN [ m \in DOMAIN map \cup {memberId} |->
                     IF m = memberId
                     THEN [purchaseDate |-> IF product.purchaseDate # NULL
                                            THEN product.purchaseDate ELSE Now]
                     ELSE map[m] ]
            ELSE map)

purchasesMapOf(products) == purchasesMapFold(products, <<>>)

\* the per-trial read: conversions of this memberId and city (id, memberId, city, membershipType)
selectByMemberCity(conv, memberId, city) ==
  { [id |-> i, memberId |-> conv[i].memberId, city |-> conv[i].city,
     membershipType |-> conv[i].membershipType] :
      i \in { j \in 1..Len(conv) : conv[j].memberId = memberId /\ conv[j].city = city } }

hasCourseConversion(existing) == \E c \in existing : c.membershipType = "course"

hasMembershipConversion(existing) == \E c \in existing : isTerminal(c.membershipType)

\* existingConversions.find(...): the course rows of the member, lowest id first
courseConversionIds(existing, memberId) ==
  { c.id : c \in { e \in existing : e.memberId = memberId /\ e.membershipType = "course" } }

\* db.update(conversions).set({...}).where(eq(conversions.id, courseConversion.id))
updateCourseToMembership(conv, id, contractData) ==
  [conv EXCEPT ![id] = [@ EXCEPT !.memberSince = contractData.startDate,
                                 !.membershipType = contractData.membershipType,
                                 !.source = "trial",
                                 !.hadCourseStep = TRUE]]

\* the membership branch of one trial, after the read
membershipBranch(conv, trial, existing, contractData, dryRun) ==
  IF dryRun THEN [conv |-> conv, found |-> 1, created |-> 0]
  ELSE IF hasCourseConversion(existing)
       THEN LET ids == courseConversionIds(existing, trial.memberId)
            IN IF ids # {}
               THEN [conv |-> updateCourseToMembership(conv,
                                 CHOOSE i \in ids : \A k \in ids : i <= k, contractData),
                     found |-> 1, created |-> 1]
               ELSE [conv |-> insertConversion(conv, trial.memberId, trial.city,
                                 contractData.startDate, contractData.membershipType,
                                 "trial", TRUE),
                     found |-> 1, created |-> 1]
       ELSE [conv |-> insertConversion(conv, trial.memberId, trial.city,
                         contractData.startDate, contractData.membershipType,
                         "trial", FALSE),
             found |-> 1, created |-> 1]

\* the purchase branch of one trial, after the read
\* variant: a member without a course purchase gets a course record too
purchaseBranchAlways(conv, trial, purchasesMap, dryRun) ==
  IF dryRun THEN [conv |-> conv, found |-> 1, created |-> 0]
  ELSE [conv |-> insertConversion(conv, trial.memberId, trial.city,
                    IF trial.memberId \in DOMAIN purchasesMap
                    THEN purchasesMap[trial.memberId].purchaseDate ELSE Now,
                    "course", "trial", FALSE),
        found |-> 1, created |-> 1]

purchaseBranch(conv, trial, purchasesMap, dryRun) ==
  IF trial.memberId \in DOMAIN purchasesMap /\ purchasesMap[trial.memberId].purchaseDate # NULL
  THEN IF dryRun THEN [conv |-> conv, found |-> 1, created |-> 0]
       ELSE [conv |-> insertConversion(conv, trial.memberId, trial.city,
                         purchasesMap[trial.memberId].purchaseDate, "course",
                         "trial", FALSE),
             found |-> 1, created |-> 1]
  ELSE [conv |-> conv, found |-> 0, created |-> 0]

\* variant: the purchase is looked at before the contract
trialWritePurchaseFirst(conv, trial, existing, membersMap, purchasesMap, dryRun) ==
  IF hasMembershipConversion(existing)
  THEN [conv |-> conv, found |-> 0, created |-> 0]
  ELSE IF ~hasCourseConversion(existing) /\ trial.memberId \in DOMAIN purchasesMap
       THEN purchaseBranch(conv, trial, purchasesMap, dryRun)
       ELSE IF trial.memberId \in DOMAIN membersMap
            THEN membershipBranch(conv, trial, existing, membersMap[trial.memberId], dryRun)
            ELSE [conv |-> conv, found |-> 0, created |-> 0]

\* what one trial row does with the conversions it read (body of the loop after the select)
trialWrite(conv, trial, existing, membersMap, purchasesMap, dryRun) ==
  IF hasMembershipConversion(existing)
  THEN [conv |-> conv, found |-> 0, created |-> 0]
  ELSE IF trial.memberId \in DOMAIN membersMap
       THEN membershipBranch(conv, trial, existing, membersMap[trial.memberId], dryRun)
       ELSE IF ~hasCourseConversion(existing)
            THEN purchaseBranch(conv, trial, purchasesMap, dryRun)
            ELSE [conv |-> conv, found |-> 0, created |-> 0]

\* one trial row: select, then decide and write
trialRow(conv, trial, membersMap, purchasesMap, dryRun) ==
  trialWrite(conv, trial, selectByMemberCity(conv, trial.memberId, trial.city),
             membersMap, purchasesMap, dryRun)

\* the counters after the first row of a group and after each of its `more` other rows
trialRowsResult(rs, more, first, again) ==
  [rs EXCEPT !.conv = IF more > 0 THEN again.conv ELSE first.conv,
             !.found = @ + first.found + more * again.found,
             !.created = @ + first.created + more * again.created]

trialRowsAfterFirst(rs, trial, first, membersMap, purchasesMap, dryRun) ==
  trialRowsResult(rs, trial.rows - 1, first,
                  trialRow(first.conv, trial, membersMap, purchasesMap, dryRun))

\* trial.rows consecutive rows with the same memberId and city
trialRows(rs, trial, membersMap, purchasesMap, dryRun) ==
  trialRowsAfterFirst(rs, trial,
                      trialRow(rs.conv, trial, membersMap, purchasesMap, dryRun),
                      membersMap, purchasesMap, dryRun)

RECURSIVE trialsLoop(_, _, _, _, _)
trialsLoop(rs, ts, membersMap, purchasesMap, dryRun) ==
  IF ts = <<>> THEN rs
  ELSE trialsLoop(
         IF Head(ts).memberId = NULL \/ Head(ts).city = NULL THEN rs
         ELSE trialRows(rs, Head(ts), membersMap, purchasesMap, dryRun),
         Tail(ts), membersMap, purchasesMap, dryRun)

\* one iteration of "for (const [country, countryTrials] of trialsByCountry.entries())"
processCountry(rs, country, ts, plat, dryRun) ==
  IF getPerfectGymConfig(country) = NULL
  THEN [rs EXCEPT !.errors = Append(@, <<"No API config found for country", country>>)]
  ELSE trialsLoop(rs, ts, membersMapOf(plat[country].members),
                  purchasesMapOf(plat[country].products), dryRun)

RECURSIVE countriesLoop(_, _, _, _, _)
countriesLoop(rs, cs, ts, plat, dryRun) ==
  IF cs = <<>> THEN rs
  ELSE countriesLoop(processCountry(rs, Head(cs), countryTrials(ts, Head(cs)), plat, dryRun),
                     Tail(cs), ts, plat, dryRun)

NoReport ==
  [ran |-> FALSE, success |-> FALSE, status |-> 0, dryRun |-> FALSE,
   message |-> NULL, conversionsFound |-> 0, conversionsCreated |-> 0,
   trialsChecked |-> 0, trialsRemaining |-> 0, errors |-> <<>>]

\* NextResponse.json({ success, dryRun, conversionsFound, ... })
trialsReport(rs, checked, processed, dryRun) ==
  [conv |-> rs.conv,
   report |-> [NoReport EXCEPT
                 !.ran = TRUE, !.success = TRUE, !.status = 200,
                 !.dryRun = dryRun, !.message = "Checked",
                 !.conversionsFound = rs.found,
                 !.conversionsCreated = rs.created,
                 !.trialsChecked = processed,
                 !.trialsRemaining = IF checked - maxTrials > 0
                                     THEN checked - maxTrials ELSE 0,
                 !.errors = rs.errors]]

syncTrialsOf(conv, toCheck, toProcess, plat, dryRun) ==
  IF SumRows(toCheck) = 0
  THEN [conv |-> conv,
        report |-> [NoReport EXCEPT !.ran = TRUE, !.success = TRUE, !.status = 200,
                                    !.message = "No trials to check"]]
  ELSE trialsReport(countriesLoop([conv |-> conv, found |-> 0, created |-> 0,
                                   errors |-> <<>>],
                                  countryOrder(toProcess, {}), toProcess, plat, dryRun),
                    SumRows(toCheck), SumRows(toProcess), dryRun)

\* syncTrials({ dryRun }): the conversions table afterwards and the JSON response
syncTrials(conv, trials, plat, dryRun) ==
  syncTrialsOf(conv, trialsToCheck(conv, trials), trialsToProcess(conv, trials), plat, dryRun)

\* ------------------------------------------------------------------------
\* syncGuests
\* ------------------------------------------------------------------------
\* "no such guest": every optional read (existingGuest?.city) yields NULL
NoGuest ==
  [memberId |-> NULL, creditsLeft |-> 0, city |-> NULL, startDate |-> NULL,
   packageSize |-> 0, convertedAt |-> NULL]

\* existingGuestsMap.get(memberId)
guestOf(gs, memberId) ==
  LET idx == { i \in 1..Len(gs) : gs[i].memberId = memberId }
  IN IF idx = {} THEN NoGuest ELSE gs[CHOOSE i \in idx : \A k \in idx : k <= i]

NoGuestsReport ==
  [ran |-> FALSE, status |-> 0, dryRun |-> FALSE, error |-> NULL,
   guestsCreated |-> 0, guestsUpdated |-> 0, guestsToCreate |-> 0, guestsToUpdate |-> 0,
   guestsConverted |-> 0, conversionsCreated |-> 0, guestsToConvert |-> 0,
   guestsToCheck |-> <<>>]

\* productsByMember: the member ids in Map insertion order ...
RECURSIVE productMemberOrder(_, _)
productMemberOrder(products, seen) ==
  IF products = <<>> THEN <<>>
  ELSE IF Head(products).memberId \in seen
       THEN productMemberOrder(Tail(products), seen)
       ELSE <<Head(products).memberId>>
              \o productMemberOrder(Tail(products), seen \cup {Head(products).memberId})

purchaseTime(product) ==
  IF product.purchaseDate # NULL THEN DateRank(product.purchaseDate) ELSE 0

\* a fold that keeps the product returned last, whatever its purchaseDate
RECURSIVE productsByMemberLast(_, _)
productsByMemberLast(products, map) ==
  IF products = <<>> THEN map
  ELSE LET product == Head(products)
           memberId == product.memberId
       IN productsByMemberLast(Tail(products),
            [ m \in DOMAIN map \cup {memberId} |->
                IF m = memberId THEN product ELSE map[m] ])

\* ... and the newest product of each (by purchaseDate, the first one on a tie)
RECURSIVE productsByMemberFold(_, _)
productsByMemberFold(products, map) ==
  IF products = <<>> THEN map
  ELSE LET product == Head(products)
           memberId == product.memberId
           replace == \/ memberId \notin DOMAIN map
                      \/ purchaseTime(product) > purchaseTime(map[memberId])
       IN productsByMemberFold(Tail(products),
            IF replace
            THEN [ m \in DOMAIN map \cup {memberId} |->
                     IF m = memberId THEN product ELSE map[m] ]
            ELSE map)

productsByMember(products) == productsByMemberFold(products, <<>>)

\* city of a step-1 product: homeClubId of the synced country, else the existing guest's
\* city when that city lies in the synced country
step1City(country, product, existingGuest) ==
  LET cityFromClubId == getCityFromHomeClubId(country, product.homeClubId)
  IN IF cityFromClubId # NULL THEN cityFromClubId
     ELSE IF existingGuest.city # NULL
             /\ getCountryFromCity(existingGuest.city) = country
          THEN existingGuest.city
          ELSE NULL

needsUpdate(existingGuest, product, city) ==
  \/ existingGuest.creditsLeft # product.currentQuantity
  \/ existingGuest.packageSize # product.initialQuantity
  \/ (existingGuest.city = NULL /\ city # NULL)

\* db.update(guests).set({creditsLeft, packageSize, city}).where(eq(guests.memberId, memberId))
updateGuestProduct(gs, memberId, product, city) ==
  [ i \in 1..Len(gs) |->
      IF gs[i].memberId = memberId
      THEN [gs[i] EXCEPT !.creditsLeft = product.currentQuantity,
                         !.packageSize = product.initialQuantity,
                         !.city = IF city # NULL THEN city ELSE @]
      ELSE gs[i] ]

\* step 1 for one member of productsByMember
step1Member(rs, country, memberId, product, existingGuest, dryRun) ==
  LET city == step1City(country, product, existingGuest)
  IN IF city = NULL THEN rs
     ELSE IF getCountryFromCity(city) # country THEN rs
     ELSE IF existingGuest.memberId = NULL
          THEN IF dryRun THEN [rs EXCEPT !.guestsToCreate = @ + 1]
               ELSE [rs EXCEPT
                       !.guests = Append(@, [memberId |-> memberId,
                                             creditsLeft |-> product.currentQuantity,
                                             city |-> city,
                                             startDate |-> IF product.purchaseDate # NULL
                                                           THEN product.purchaseDate
                                                           ELSE Now,
                                             packageSize |-> product.initialQuantity,
                                             convertedAt |-> NULL]),
                       !.guestsCreated = @ + 1]
          ELSE IF needsUpdate(existingGuest, product, city)
               THEN IF dryRun THEN [rs EXCEPT !.guestsToUpdate = @ + 1]
                    ELSE [rs EXCEPT !.guests = updateGuestProduct(@, memberId, product, city),
                                    !.guestsUpdated = @ + 1]
               ELSE rs

RECURSIVE step1Loop(_, _, _, _, _, _)
step1Loop(rs, country, order, byMember, existingGuests, dryRun) ==
  IF order = <<>> THEN rs
  ELSE step1Loop(step1Member(rs, country, Head(order), byMember[Head(order)],
                             guestOf(existingGuests, Head(order)), dryRun),
                 country, Tail(order), byMember, existingGuests, dryRun)

\* trialsByMemberId.has(memberId)
hadTrial(trials, memberId) ==
  \E i \in 1..Len(trials) : trials[i].memberId # NULL /\ trials[i].memberId = memberId

\* variant: the members of step 1, converted or not
RECURSIVE step1GuestsToCheckAll(_, _, _, _)
step1GuestsToCheckAll(order, byMember, existingGuests, country) ==
  IF order = <<>> THEN <<>>
  ELSE LET memberId == Head(order)
           existingGuest == guestOf(existingGuests, memberId)
           cityMap == step1City(country, byMember[memberId], existingGuest)
       IN <<[memberId |-> memberId,
             creditsLeft |-> byMember[memberId].currentQuantity,
             city |-> IF cityMap # NULL THEN cityMap ELSE existingGuest.city,
             step1City |-> cityMap]>>
          \o step1GuestsToCheckAll(Tail(order), byMember, existingGuests, country)

\* guestsToCheck, first part: the members of step 1 that are not converted yet
RECURSIVE step1GuestsToCheck(_, _, _, _)
step1GuestsToCheck(order, byMember, existingGuests, country) ==
  IF order = <<>> THEN <<>>
  ELSE LET memberId == Head(order)
           existingGuest == guestOf(existingGuests, memberId)
           cityMap == step1City(country, byMember[memberId], existingGuest)
           rest == step1GuestsToCheck(Tail(order), byMember, existingGuests, country)
       IN IF existingGuest.convertedAt # NULL THEN rest
          ELSE <<[memberId |-> memberId,
                  creditsLeft |-> byMember[memberId].currentQuantity,
                  city |-> IF cityMap # NULL THEN cityMap
                           ELSE existingGuest.city,
                  step1City |-> cityMap]>> \o rest

\* guestsToCheck, second part: unconverted guests of the store that lie in this country
activeGuestsFromDb(allGuests, step1MemberIds, country) ==
  LET keep == SelectSeq(allGuests,
                LAMBDA g : /\ g.convertedAt = NULL
                           /\ g.memberId \notin step1MemberIds
                           /\ g.city # NULL
                           /\ getCountryFromCity(g.city) = country)
  IN [ i \in 1..Len(keep) |->
         [memberId |-> keep[i].memberId, creditsLeft |-> keep[i].creditsLeft,
          city |-> keep[i].city, step1City |-> NULL] ]

\* variant: convertedAt is set to the time of the run
setConvertedAtToNow(gs, memberId, contractStartDate) ==
  [ i \in 1..Len(gs) |->
      IF gs[i].memberId = memberId THEN [gs[i] EXCEPT !.convertedAt = Now]
      ELSE gs[i] ]

\* db.update(guests).set({ convertedAt }).where(eq(guests.memberId, memberId))
setConvertedAt(gs, memberId, contractStartDate) ==
  [ i \in 1..Len(gs) |->
      IF gs[i].memberId = memberId THEN [gs[i] EXCEPT !.convertedAt = contractStartDate]
      ELSE gs[i] ]

\* db.update(guests).set({ city }).where(eq(guests.memberId, memberId))
setGuestCity(gs, memberId, city) ==
  [ i \in 1..Len(gs) |->
      IF gs[i].memberId = memberId THEN [gs[i] EXCEPT !.city = city] ELSE gs[i] ]

\* city used for the conversion of a guest: its own, else the one of step 1
cityForConversion(guest) == IF guest.city # NULL THEN guest.city ELSE guest.step1City

\* variant: the select finds nothing
existingConversionNeverFound(conv, memberId, city) == {}

\* the "conversion already exists" select: terminal rows of the member with this city,
\* or with no city when none is known
existingConversion(conv, memberId, city) ==
  { i \in 1..Len(conv) :
      /\ conv[i].memberId = memberId
      /\ isTerminal(conv[i].membershipType)
      /\ IF city # NULL THEN conv[i].city = city ELSE conv[i].city = NULL }

guestSource(trials, memberId) == IF hadTrial(trials, memberId) THEN "trial" ELSE "guest"

guestHadCourseStep(trials, memberId) == hadTrial(trials, memberId)

\* the insert of step 2, given the rows the select returned
guestConversionWrite(conv, guest, existing, contractData, trials) ==
  IF existing = {}
  THEN insertConversion(conv, guest.memberId, cityForConversion(guest),
                        contractData.startDate, contractData.membershipType,
                        guestSource(trials, guest.memberId),
                        guestHadCourseStep(trials, guest.memberId))
  ELSE conv

\* step 2 for one guest of guestsToCheck
step2Guest(rs, guest, membersMap, trials, dryRun) ==
  IF guest.memberId \notin DOMAIN membersMap THEN rs
  ELSE IF dryRun THEN [rs EXCEPT !.guestsToConvert = @ + 1]
  ELSE LET contractData == membersMap[guest.memberId]
           city == cityForConversion(guest)
           gs1 == setConvertedAt(rs.guests, guest.memberId, contractData.startDate)
           gs2 == IF guest.city = NULL /\ city # NULL
                  THEN setGuestCity(gs1, guest.memberId, city) ELSE gs1
           existing == existingConversion(rs.conv, guest.memberId, city)
       IN [rs EXCEPT !.guests = gs2,
                     !.conv = guestConversionWrite(rs.conv, guest, existing, contractData, trials),
                     !.conversionsCreated = @ + (IF existing = {} THEN 1 ELSE 0),
                     !.guestsConverted = @ + 1]

RECURSIVE step2Loop(_, _, _, _, _)
step2Loop(rs, toCheck, membersMap, trials, dryRun) ==
  IF toCheck = <<>> THEN rs
  ELSE step2Loop(step2Guest(rs, Head(toCheck), membersMap, trials, dryRun),
                 Tail(toCheck), membersMap, trials, dryRun)

Range(f) == { f[i] : i \in DOMAIN f }

\* NextResponse.json({ dryRun, step1, step2 })
guestsReport(rs, toCheck, dryRun) ==
  [conv |-> rs.conv, guests |-> rs.guests,
   report |-> [NoGuestsReport EXCEPT
                 !.ran = TRUE, !.status = 200, !.dryRun = dryRun,
                 !.guestsCreated = rs.guestsCreated,
                 !.guestsUpdated = rs.guestsUpdated,
                 !.guestsToCreate = rs.guestsToCreate,
                 !.guestsToUpdate = rs.guestsToUpdate,
                 !.guestsConverted = rs.guestsConverted,
                 !.conversionsCreated = rs.conversionsCreated,
                 !.guestsToConvert = rs.guestsToConvert,
                 !.guestsToCheck = toCheck]]

GuestCounters ==
  [guestsCreated |-> 0, guestsUpdated |-> 0, guestsToCreate |-> 0, guestsToUpdate |-> 0,
   guestsConverted |-> 0, conversionsCreated |-> 0, guestsToConvert |-> 0]

\* step 2, given guestsToCheck
syncGuestsCheck(rs, toCheck, membersMap, trials, dryRun) ==
  guestsReport(step2Loop(rs, toCheck, membersMap, trials, dryRun), toCheck, dryRun)

\* step 2, given the tables step 1 left
syncGuestsStep2(rs, gs, order, byMember, country, plat, trials, dryRun) ==
  syncGuestsCheck(rs,
                  step1GuestsToCheck(order, byMember, gs, country)
                    \o activeGuestsFromDb(rs.guests, Range(order), country),
                  membersMapOf(plat[country].members), trials, dryRun)

\* step 1, given productsByMember
syncGuestsStep1(conv, gs, order, byMember, country, plat, trials, dryRun) ==
  syncGuestsStep2(step1Loop([conv |-> conv, guests |-> gs] @@ GuestCounters,
                            country, order, byMember, gs, dryRun),
                  gs, order, byMember, country, plat, trials, dryRun)

\* syncGuests({ country, dryRun }): both tables afterwards and the JSON response
syncGuests(conv, gs, trials, plat, countryParam, dryRun) ==
  IF countryParamMap(countryParam) = NULL
  THEN [conv |-> conv, guests |-> gs,
        report |-> [NoGuestsReport EXCEPT !.ran = TRUE, !.status = 400,
                      !.error = "Invalid country parameter"]]
  ELSE IF getPerfectGymConfig(countryParamMap(countryParam)) = NULL
  THEN [conv |-> conv, guests |-> gs,
        report |-> [NoGuestsReport EXCEPT !.ran = TRUE, !.status = 500,
                      !.error = "No PerfectGym configuration found"]]
  ELSE syncGuestsStep1(conv, gs,
                       productMemberOrder(plat[countryParamMap(countryParam)].products, {}),
                       productsByMember(plat[countryParamMap(countryParam)].products),
                       countryParamMap(countryParam), plat, trials, dryRun)

\* ------------------------------------------------------------------------
\* syncAll
\* ------------------------------------------------------------------------
\* NextResponse.json({ success: true, dryRun, results })
syncAllResponse(t, g) ==
  [conv |-> g.conv, guests |-> g.guests,
   response |-> [status |-> 200, success |-> TRUE,
                 trials |-> t.report, guests |-> g.report]]

syncAllGuests(t, gs, trials, plat, countryParam, dryRun) ==
  syncAllResponse(t, syncGuests(t.conv, gs, trials, plat, countryParam, dryRun))

\* syncAll({ country, dryRun }): syncTrials, then syncGuests
syncAll(conv, gs, trials, plat, countryParam, dryRun) ==
  syncAllGuests(syncTrials(conv, trials, plat, dryRun), gs, trials, plat, countryParam, dryRun)

\* ------------------------------------------------------------------------
\* Webhook handlers
\* ------------------------------------------------------------------------
\* determineConversionSource: the sources the lookups can yield (limit(1) without an
\* order picks any matching row)
determineConversionSource(conv, gs, trials, memberId) ==
  LET guestRecord == guestOf(gs, memberId)
      trialRecords == { i \in 1..Len(trials) : trials[i].memberId = memberId }
      courseConversion == { i \in 1..Len(conv) :
                              conv[i].memberId = memberId /\ conv[i].membershipType = "course" }
      existing == { i \in 1..Len(conv) : conv[i].memberId = memberId }
  IN IF guestRecord.memberId # NULL
     THEN { [source |-> "guest", hadCourseStep |-> FALSE, city |-> guestRecord.city] }
     ELSE IF trialRecords # {}
     THEN { [source |-> "trial", hadCourseStep |-> courseConversion # {},
             city |-> trials[i].city] : i \in trialRecords }
     ELSE IF existing # {}
     THEN { [source |-> "direct", hadCourseStep |-> FALSE, city |-> conv[i].city] :
              i \in existing }
     ELSE { [source |-> "direct", hadCourseStep |-> FALSE, city |-> NULL] }

\* ------------------------------------------------------------------------
\* The membership platforms (environment) and the initial states
\* ------------------------------------------------------------------------
Trial(memberId, city, rows) == [memberId |-> memberId, city |-> city, rows |-> rows]

Contract(isActive, startDate, paymentPlanName) ==
  [isActive |-> isActive, startDate |-> startDate, paymentPlanName |-> paymentPlanName]

Product(memberId, initialQuantity, currentQuantity, purchaseDate, homeClubId) ==
  [memberId |-> memberId, initialQuantity |-> initialQuantity,
   currentQuantity |-> currentQuantity, purchaseDate |-> purchaseDate,
   homeClubId |-> homeClubId]

\* platform events: a contract is signed, a course package is bought
Signs(country, memberId, contract) ==
  [event |-> "contract", country |-> country, memberId |-> memberId, contract |-> contract,
   product |-> Product(memberId, 0, 0, NULL, 0)]

Buys(country, product) ==
  [event |-> "product", country |-> country, memberId |-> product.memberId,
   contract |-> Contract(FALSE, NULL, <<>>), product |-> product]

\* the store at the start and the platform events still to come
Scenarios ==
  { \* the same raw member id on two tenants
    [conversions |-> <<>>, guests |-> <<>>,
     trials |-> <<Trial("500", "berlin", 1)>>,
     pending |-> { Buys("NL", Product("500", 10, 3, "2024-03-01", 1)),
                   Signs("NL", "500", Contract(TRUE, "2024-04-01", PlanLoyaltyFlex)),
                   Buys("DE", Product("500", 10, 3, "2024-03-01", 1)),
                   Signs("DE", "500", Contract(TRUE, "2024-04-01", PlanLoyaltyFlex)),
                   Signs("DE", "500", Contract(TRUE, "2024-05-10", PlanBasic)) }],
    \* more eligible trial rows than one run processes
    [conversions |-> <<>>, guests |-> <<>>,
     trials |-> <<Trial("501", "berlin", 998), Trial("500", "berlin", 1),
                  Trial("500", "amsterdam", 1)>>,
     pending |-> { Signs("DE", "501", Contract(FALSE, "2024-05-10", PlanFlex)),
                   Signs("DE", "500", Contract(TRUE, "2024-04-01", PlanLoyaltyFlex)),
                   Signs("NL", "500", Contract(TRUE, "2024-04-01", PlanLoyaltyFlex)),
                   Buys("DE", Product("501", 10, 3, "2024-03-01", 1)) }],
    \* a guest that never booked a trial; rows without member id, with an unknown
    \* city, or with the city of a tenant that has no credentials; a city label
    \* written with a capital for a member converted under the lower-case label
    [conversions |-> <<[memberId |-> "501", city |-> "berlin", memberSince |-> "2024-05-10",
                        membershipType |-> "flex", source |-> "trial",
                        hadCourseStep |-> FALSE]>>,
     guests |-> <<>>,
     trials |-> <<Trial(NULL, "berlin", 1), Trial("501", "atlantis", 1),
                  Trial("501", "zurich", 1), Trial("501", "Berlin", 2)>>,
     pending |-> { Buys("DE", Product("500", 10, 3, "2024-03-01", 1)),
                   Buys("DE", Product("500", 16, 10, "2024-04-01", 99)),
                   Buys("DE", Product("500", 10, 5, "2024-04-01", 5)),
                   Signs("DE", "500", Contract(TRUE, "2024-04-01", PlanLoyaltyFlex)),
                   Signs("DE", "501", Contract(TRUE, "2024-05-10", <<>>)) }],
    \* rows from before cities were recorded: a conversion and a guest without city
    [conversions |-> <<[memberId |-> "500", city |-> NULL, memberSince |-> "2024-03-01",
                        membershipType |-> "flex", source |-> "direct",
                        hadCourseStep |-> FALSE]>>,
     guests |-> <<[memberId |-> "500", creditsLeft |-> 3, city |-> NULL,
                   startDate |-> "2024-03-01", packageSize |-> 10,
                   convertedAt |-> NULL]>>,
     trials |-> <<Trial("500", "berlin", 1)>>,
     pending |-> { Buys("DE", Product("500", 10, 3, "2024-03-01", 99)),
                   Buys("DE", Product("500", 16, 16, "2024-05-10", 1)),
                   Signs("DE", "500", Contract(TRUE, "2024-04-01", PlanFlex)) }] }

PlatformCountries == {"NL", "DE"}

\* no bulk fetch failed
NoFault == [country |-> NULL, endpoint |-> NULL, kind |-> "ok", page |-> 0]

NoRequest ==
  [op |-> "none", type |-> NULL, country |-> NULL, execute |-> NULL, fault |-> NoFault]

NoResponse == [status |-> 0, success |-> FALSE, trials |-> NoReport, guests |-> NoGuestsReport]

Init ==
  /\ \E sc \in Scenarios :
        /\ conversions = sc.conversions
        /\ guests = sc.guests
        /\ trialBookings = sc.trials
        /\ pending = sc.pending
  /\ platform = [c \in PlatformCountries |-> [members |-> <<>>, products |-> <<>>]]
  /\ req = NoRequest
  /\ resp = NoResponse
  /\ runs = <<>>

newestContractRank(members, memberId) ==
  LET idx == { i \in 1..Len(members) : members[i].id = memberId }
  IN IF idx = {} THEN 0
     ELSE DateRank(members[CHOOSE i \in idx : TRUE].contracts[1].startDate)

\* a member signs a contract: it becomes the newest one, the one the bulk endpoint
\* returns ($orderby=startDate desc;$top=1)
ContractSigned(e) ==
  /\ runs = <<>>
  /\ e \in pending /\ e.event = "contract"
  /\ DateRank(e.contract.startDate)
       > newestContractRank(platform[e.country].members, e.memberId)
  /\ LET others == SelectSeq(platform[e.country].members, LAMBDA m : m.id # e.memberId)
     IN platform' = [platform EXCEPT ![e.country].members =
                       Append(others, [id |-> e.memberId, contracts |-> <<e.contract>>])]
  /\ pending' = pending \ {e}
  /\ req' = [NoRequest EXCEPT !.op = "platform"]
  /\ resp' = NoResponse
  /\ UNCHANGED <<conversions, guests, trialBookings, runs>>

\* a member buys a course package
ProductPurchased(e) ==
  /\ runs = <<>>
  /\ e \in pending /\ e.event = "product"
  /\ platform' = [platform EXCEPT ![e.country].products = Append(@, e.product)]
  /\ pending' = pending \ {e}
  /\ req' = [NoRequest EXCEPT !.op = "platform"]
  /\ resp' = NoResponse
  /\ UNCHANGED <<conversions, guests, trialBookings, runs>>

\* ------------------------------------------------------------------------
\* The sync route
\* ------------------------------------------------------------------------
SYNC_TYPES == {"trials", "guests", "all"}

\* variant: only execute=false asks for a dry run
isDryRunOnlyWhenFalse(execute) == execute = "false"

\* const execute = searchParams.get('execute') === 'true'; const dryRun = !execute
isDryRun(execute) == ~(execute = "true")

request(type, country, execute) ==
  [op |-> "sync", type |-> type, country |-> country, execute |-> execute,
   fault |-> NoFault]

\* the response of type=trials
trialsResponse(gs, r) ==
  [conv |-> r.conv, guests |-> gs,
   response |-> [NoResponse EXCEPT !.status = r.report.status,
                                   !.success = r.report.success,
                                   !.trials = r.report]]

\* the response of type=guests
guestsResponse(r) ==
  [conv |-> r.conv, guests |-> r.guests,
   response |-> [NoResponse EXCEPT !.status = r.report.status, !.guests = r.report]]

\* handleRequest: both tables afterwards and the response
handleRequest(type, country, execute, conv, gs, trials, plat) ==
  IF type \notin SYNC_TYPES \/ (type \in {"guests", "all"} /\ country = NULL)
  THEN [conv |-> conv, guests |-> gs, response |-> [NoResponse EXCEPT !.status = 400]]
  ELSE IF type = "trials"
  THEN trialsResponse(gs, syncTrials(conv, trials, plat, isDryRun(execute)))
  ELSE IF type = "guests"
  THEN guestsResponse(syncGuests(conv, gs, trials, plat, country, isDryRun(execute)))
  ELSE syncAll(conv, gs, trials, plat, country, isDryRun(execute))

\* the tables and the response as the handler leaves them
Respond(type, country, execute, r) ==
  /\ conversions' = r.conv
  /\ guests' = r.guests
  /\ resp' = r.response
  /\ req' = request(type, country, execute)
  /\ UNCHANGED <<trialBookings, platform, pending, runs>>

\* one request served from start to end
Serve(type, country, execute) ==
  /\ runs = <<>>
  /\ Respond(type, country, execute,
             handleRequest(type, country, execute, conversions, guests,
                           trialBookings, platform))

\* GET/POST /api/sync/all?type=trials
SyncTrialsRequest(execute) == Serve("trials", NULL, execute)

\* GET/POST /api/sync/all?type=guests&country=..
SyncGuestsRequest(country, execute) == country # NULL /\ Serve("guests", country, execute)

\* GET/POST /api/sync/all?type=all&country=..
SyncAllRequest(country, execute) == country # NULL /\ Serve("all", country, execute)

\* missing or unknown type, or no country for guests / all
BadRequest(type, country, execute) ==
  /\ \/ type \notin SYNC_TYPES
     \/ (type \in {"guests", "all"} /\ country = NULL)
  /\ Serve(type, country, execute)

\* the requests made: the values of execute, <<country, execute>>, <<type, country, execute>>
TrialsRequests == { "true", "false" }
GuestsRequests == { <<"nl", "true">>, <<"de", "true">>, <<"de", NULL>>, <<"xx", "true">> }
AllRequests == { <<"de", "true">>, <<"nl", "TRUE">>, <<"ch", "true">> }
BadRequests == { <<NULL, NULL, "true">> }

SyncNext ==
  \/ \E e \in TrialsRequests : SyncTrialsRequest(e)
  \/ \E r \in GuestsRequests : SyncGuestsRequest(r[1], r[2])
  \/ \E r \in AllRequests : SyncAllRequest(r[1], r[2])
  \/ \E r \in BadRequests : BadRequest(r[1], r[2], r[3])

PlatformNext ==
  \/ \E e \in pending : ContractSigned(e)
  \/ \E e \in pending : ProductPurchased(e)

Next == SyncNext \/ PlatformNext

Spec == Init /\ [][Next]_vars

\* ------------------------------------------------------------------------
\* Bulk fetch failures.  A bulk fetch reads the tenant's list page by page.  A
\* response that is not ok ends the loop and the pages read so far are returned;
\* a timeout (abort) or any other exception returns the empty list.
\* ------------------------------------------------------------------------
PageSize == 1
MaxFailPage == 2

\* the list the paginated loop returns when the fetch of page `page` fails
bulkFetch(list, kind, page) ==
  IF kind = "ok" THEN list
  ELSE IF kind = "thrown" THEN <<>>
  ELSE SubSeq(list, 1, IF (page - 1) * PageSize < Len(list)
                       THEN (page - 1) * PageSize ELSE Len(list))

getAllMembersWithContracts(members, kind, page) == bulkFetch(members, kind, page)

getAllMemberProducts(products, kind, page) == bulkFetch(products, kind, page)

\* what the two bulk fetches of every tenant return when one of them fails
fetched(plat, fault) ==
  [c \in DOMAIN plat |->
     [members |-> IF fault.country = c /\ fault.endpoint = "members"
                  THEN getAllMembersWithContracts(plat[c].members, fault.kind, fault.page)
                  ELSE getAllMembersWithContracts(plat[c].members, "ok", 0),
      products |-> IF fault.country = c /\ fault.endpoint = "products"
                   THEN getAllMemberProducts(plat[c].products, fault.kind, fault.page)
                   ELSE getAllMemberProducts(plat[c].products, "ok", 0)]]

\* the failures: a non-ok status on a page, a timeout or a network error
Faults ==
  { [country |-> c, endpoint |-> e, kind |-> k, page |-> n] :
      c \in PlatformCountries, e \in {"members", "products"},
      k \in {"status", "thrown"}, n \in 1..MaxFailPage }

\* the tenants a syncTrials run fetches from
tenantsFetched(conv, trials) ==
  { getPerfectGymConfig(getCountryFromCity(trialsToProcess(conv, trials)[i].city)) :
      i \in 1..Len(trialsToProcess(conv, trials)) } \ {NULL}

RespondAfterFault(type, country, execute, fault, r) ==
  /\ conversions' = r.conv
  /\ guests' = r.guests
  /\ resp' = r.response
  /\ req' = [request(type, country, execute) EXCEPT !.fault = fault]
  /\ UNCHANGED <<trialBookings, platform, pending, runs>>

\* GET/POST /api/sync/all?type=trials while one bulk fetch of one tenant fails
SyncTrialsRequestWithFault(execute, fault) ==
  /\ runs = <<>>
  /\ fault.country \in tenantsFetched(conversions, trialBookings)
  /\ fault.kind = "thrown" => fault.page = 1
  /\ RespondAfterFault("trials", NULL, execute, fault,
                       handleRequest("trials", NULL, execute, conversions, guests,
                                     trialBookings, fetched(platform, fault)))

FaultNext == \E e \in TrialsRequests : \E f \in Faults : SyncTrialsRequestWithFault(e, f)

NextWithFaults == Next \/ FaultNext

FaultSpec == Init /\ [][NextWithFaults]_vars

\* ------------------------------------------------------------------------
\* Interleaved sync runs: two requests with execute=true in flight, each split
\* at its awaits on the store (the per-candidate select and the write that
\* follows it).  The platform does not change while the runs are in flight,
\* so its bulk results are read where they are used.
\* ------------------------------------------------------------------------
Procs == {"a", "b"}

\* wrote: the run has issued a write to the conversions table
IdleRun ==
  [pc |-> "idle", kind |-> NULL, country |-> NULL, todo |-> <<>>, existing |-> {},
   wrote |-> FALSE]

\* the trials of trialsToProcess in the order the country loop visits them
RECURSIVE trialsInOrder(_, _)
trialsInOrder(cs, ts) ==
  IF cs = <<>> THEN <<>>
  ELSE (IF getPerfectGymConfig(Head(cs)) = NULL THEN <<>> ELSE countryTrials(ts, Head(cs)))
       \o trialsInOrder(Tail(cs), ts)

\* a store and a platform as sequential runs and platform events leave them
ConcScenarios ==
  { [trials |-> <<Trial("500", "berlin", 1)>>,
     members |-> <<[id |-> "500",
                    contracts |-> <<Contract(TRUE, "2024-04-01", PlanLoyaltyFlex)>>]>>,
     products |-> <<Product("500", 10, 3, "2024-03-01", 1)>>],
    \* two trial rows of one prospect
    [trials |-> <<Trial("500", "berlin", 2)>>,
     members |-> <<[id |-> "500",
                    contracts |-> <<Contract(TRUE, "2024-04-01", PlanLoyaltyFlex)>>]>>,
     products |-> <<>>],
    [trials |-> <<Trial("501", "berlin", 2)>>,
     members |-> <<[id |-> "500",
                    contracts |-> <<Contract(TRUE, "2024-05-10", PlanFlex)>>]>>,
     products |-> <<Product("500", 16, 10, "2024-04-01", 1)>>] }

ConcInit ==
  /\ conversions = <<>>
  /\ guests = <<>>
  /\ pending = {}
  /\ \E sc \in ConcScenarios :
        /\ trialBookings = sc.trials
        /\ platform = [c \in PlatformCountries |->
                         IF c = "DE" THEN [members |-> sc.members, products |-> sc.products]
                         ELSE [members |-> <<>>, products |-> <<>>]]
  /\ req = NoRequest
  /\ resp = NoResponse
  /\ runs = [p \in Procs |-> IdleRun]

\* syncTrials up to the country loop: the two selects and the slice
StartSyncTrials(p) ==
  /\ runs[p].pc = "idle"
  /\ LET toProcess == trialsToProcess(conversions, trialBookings)
         todo == trialsInOrder(countryOrder(toProcess, {}), toProcess)
     IN runs' = [runs EXCEPT ![p] = [IdleRun EXCEPT !.kind = "trials", !.todo = todo,
                                       !.pc = IF todo = <<>> THEN "done" ELSE "select"]]
  /\ UNCHANGED <<conversions, guests, trialBookings, platform, pending, req, resp>>

\* await db.select(...).from(conversions).where(memberId, city) for the next trial
TrialSelect(p) ==
  /\ runs[p].kind = "trials" /\ runs[p].pc = "select"
  /\ runs' = [runs EXCEPT ![p].existing =
                 selectByMemberCity(conversions, Head(runs[p].todo).memberId,
                                    Head(runs[p].todo).city),
                          ![p].pc = "write"]
  /\ UNCHANGED <<conversions, guests, trialBookings, platform, pending, req, resp>>

\* the decision on the rows read and the await db.insert / db.update it leads to
TrialWrite(p) ==
  /\ runs[p].kind = "trials" /\ runs[p].pc = "write"
  /\ LET trial == Head(runs[p].todo)
         country == getCountryFromCity(trial.city)
         rest == IF trial.rows > 1
                 THEN <<[trial EXCEPT !.rows = @ - 1]>> \o Tail(runs[p].todo)
                 ELSE Tail(runs[p].todo)
         written == trialWrite(conversions, trial, runs[p].existing,
                               membersMapOf(platform[country].members),
                               purchasesMapOf(platform[country].products), FALSE).conv
     IN /\ conversions' = written
        /\ runs' = [runs EXCEPT ![p].todo = rest, ![p].existing = {},
                                ![p].wrote = @ \/ written # conversions,
                                ![p].pc = IF rest = <<>> THEN "done" ELSE "select"]
  /\ UNCHANGED <<guests, trialBookings, platform, pending, req, resp>>

\* syncGuests up to the loop of step 2: step 1 and the selects that build guestsToCheck
StartSyncGuests(p, countryParam) ==
  /\ runs[p].pc = "idle"
  /\ countryParamMap(countryParam) # NULL
  /\ getPerfectGymConfig(countryParamMap(countryParam)) # NULL
  /\ LET country == countryParamMap(countryParam)
         memberProducts == platform[country].products
         byMember == productsByMember(memberProducts)
         order == productMemberOrder(memberProducts, {})
         rs0 == [conv |-> conversions, guests |-> guests] @@ GuestCounters
         rs1 == step1Loop(rs0, country, order, byMember, guests, FALSE)
         membersMap == membersMapOf(platform[country].members)
         toCheck == step1GuestsToCheck(order, byMember, guests, country)
                      \o activeGuestsFromDb(rs1.guests, Range(order), country)
         todo == SelectSeq(toCheck, LAMBDA g : g.memberId \in DOMAIN membersMap)
     IN /\ guests' = rs1.guests
        /\ runs' = [runs EXCEPT ![p] = [IdleRun EXCEPT !.kind = "guests",
                                          !.country = country, !.todo = todo,
                                          !.pc = IF todo = <<>> THEN "done" ELSE "convert"]]
  /\ UNCHANGED <<conversions, trialBookings, platform, pending, req, resp>>

\* await db.update(guests).set({ convertedAt }) and, without a city, .set({ city })
GuestConvert(p) ==
  /\ runs[p].kind = "guests" /\ runs[p].pc = "convert"
  /\ LET guest == Head(runs[p].todo)
         contractData == membersMapOf(platform[runs[p].country].members)[guest.memberId]
         city == cityForConversion(guest)
         gs1 == setConvertedAt(guests, guest.memberId, contractData.startDate)
     IN guests' = IF guest.city = NULL /\ city # NULL
                  THEN setGuestCity(gs1, guest.memberId, city) ELSE gs1
  /\ runs' = [runs EXCEPT ![p].pc = "select"]
  /\ UNCHANGED <<conversions, trialBookings, platform, pending, req, resp>>

\* await db.select().from(conversions).where(...).limit(1)
GuestSelect(p) ==
  /\ runs[p].kind = "guests" /\ runs[p].pc = "select"
  /\ runs' = [runs EXCEPT ![p].existing =
                 existingConversion(conversions, Head(runs[p].todo).memberId,
                                    cityForConversion(Head(runs[p].todo))),
                          ![p].pc = "insert"]
  /\ UNCHANGED <<conversions, guests, trialBookings, platform, pending, req, resp>>

\* if (existingConversion.length === 0) await db.insert(conversions)
GuestInsert(p) ==
  /\ runs[p].kind = "guests" /\ runs[p].pc = "insert"
  /\ LET guest == Head(runs[p].todo)
         contractData == membersMapOf(platform[runs[p].country].members)[guest.memberId]
         rest == Tail(runs[p].todo)
         written == guestConversionWrite(conversions, guest, runs[p].existing,
                                         contractData, trialBookings)
     IN /\ conversions' = written
        /\ runs' = [runs EXCEPT ![p].todo = rest, ![p].existing = {},
                                ![p].wrote = @ \/ written # conversions,
                                ![p].pc = IF rest = <<>> THEN "done" ELSE "convert"]
  /\ UNCHANGED <<guests, trialBookings, platform, pending, req, resp>>

ConcCountries == {"de"}

ConcNext ==
  \E p \in Procs :
     \/ StartSyncTrials(p)
     \/ TrialSelect(p)
     \/ TrialWrite(p)
     \/ \E c \in ConcCountries : StartSyncGuests(p, c)
     \/ GuestConvert(p)
     \/ GuestSelect(p)
     \/ GuestInsert(p)

ConcSpec == ConcInit /\ [][ConcNext]_vars

\* ------------------------------------------------------------------------
\* Properties
\* ------------------------------------------------------------------------
\* the last request was a sync request with execute=true that was answered with 200
executed == req.op = "sync" /\ req.execute = "true" /\ resp.status = 200

\* both tables and the response if the last request were served once more
servedAgain ==
  handleRequest(req.type, req.country, req.execute, conversions, guests,
                trialBookings, platform)

unchangedBySecondRun ==
  servedAgain.conv = conversions /\ servedAgain.guests = guests

\* C1 as stated: after a sync run with execute=true, a second run of the same kind
\* against the same external facts leaves conversions and guests as the first run
\* left them.
C1_SecondRunChangesNothing == executed => unchangedBySecondRun

\* C1: after a sync run with execute=true in which syncTrials deferred no candidate
\* (trialsRemaining = 0), a second run of the same kind against the same external
\* facts leaves conversions and guests as the first run left them.
C1_SecondRunChangesNothingUnlessDeferred ==
  (executed /\ resp.trials.trialsRemaining = 0) => unchangedBySecondRun

\* a syncAll run that wrote trial conversions and converted a guest, nothing deferred
C1_Witness ==
  /\ executed /\ req.type = "all"
  /\ resp.trials.trialsRemaining = 0
  /\ resp.trials.conversionsCreated > 0
  /\ resp.guests.guestsConverted > 0

\* C2: a sync request whose execute parameter is not exactly "true" changes no row
\* of conversions, guests or trial_bookings.
C2_DryRunWritesNothing ==
  [][(req'.op = "sync" /\ req'.execute # "true") => UNCHANGED tables]_vars

\* a dry run (execute absent or not "true") that found something to write
C2_Witness ==
  /\ req.op = "sync" /\ req.execute # "true" /\ resp.status = 200
  /\ \/ resp.trials.conversionsFound > 0
     \/ resp.guests.guestsToConvert > 0
     \/ resp.guests.guestsToCreate > 0

identityKeys ==
  { <<conversions[i].memberId, conversions[i].city>> : i \in 1..Len(conversions) }

terminalRecords(key) ==
  { i \in 1..Len(conversions) :
      /\ conversions[i].memberId = key[1] /\ conversions[i].city = key[2]
      /\ conversions[i].membershipType \in {"flex", "loyalty"} }

courseRecords(key) ==
  { i \in 1..Len(conversions) :
      /\ conversions[i].memberId = key[1] /\ conversions[i].city = key[2]
      /\ conversions[i].membershipType = "course" }

\* C3: no identity key (memberId, city) has more than one flex or loyalty record.
C3_AtMostOneTerminalRecord ==
  \A key \in identityKeys : Cardinality(terminalRecords(key)) <= 1

\* an executed syncGuests run converted a guest whose key already had its terminal
\* record and therefore inserted nothing
C3_Witness ==
  /\ executed /\ req.type = "guests"
  /\ resp.guests.guestsConverted > resp.guests.conversionsCreated
  /\ \E key \in identityKeys : Cardinality(terminalRecords(key)) = 1

\* the platform has a contract with a start date for the member
hasContract(country, memberId) ==
  \E i \in 1..Len(platform[country].members) :
     /\ platform[country].members[i].id = memberId
     /\ Len(platform[country].members[i].contracts) > 0
     /\ platform[country].members[i].contracts[1].startDate # NULL

\* the newest contract the bulk endpoint returns for the member
contractOf(country, memberId) ==
  LET ms == platform[country].members
  IN ms[CHOOSE i \in 1..Len(ms) : ms[i].id = memberId].contracts[1]

\* the platform has a 10- or 16-session product for the member
hasCoursePurchase(country, memberId) ==
  \E i \in 1..Len(platform[country].products) :
     /\ platform[country].products[i].memberId = memberId
     /\ platform[country].products[i].initialQuantity \in {10, 16}

tenantOf(city) == IF city = NULL THEN NULL ELSE getPerfectGymConfig(getCountryFromCity(city))

\* C4 as stated: when a key has exactly one conversion record, a course record, and
\* the tenant has a contract for a trial of that key, an executed syncTrials run
\* rewrites that record in place (same id) to the contract's type with
\* memberSince = contract start date and hadCourseStep = true, and the key still has
\* one record.
C4_CourseRecordUpgradedInPlace ==
  [][(req'.op = "sync" /\ req'.type = "trials" /\ req'.execute = "true") =>
       \A i \in 1..Len(conversions) :
          LET c == conversions[i]
              key == <<c.memberId, c.city>>
          IN ( /\ c.membershipType = "course"
               /\ { j \in 1..Len(conversions) :
                      <<conversions[j].memberId, conversions[j].city>> = key } = {i}
               /\ \E t \in 1..Len(trialBookings) :
                     trialBookings[t].memberId = c.memberId /\ trialBookings[t].city = c.city
               /\ tenantOf(c.city) # NULL
               /\ hasContract(tenantOf(c.city), c.memberId) )
             => /\ conversions'[i].membershipType \in {"flex", "loyalty"}
                /\ conversions'[i].memberSince = contractOf(tenantOf(c.city), c.memberId).startDate
                /\ conversions'[i].hadCourseStep = TRUE
                /\ { j \in 1..Len(conversions') :
                       <<conversions'[j].memberId, conversions'[j].city>> = key } = {i}
    ]_vars

\* C5: a candidate of an executed syncTrials run whose member has both a contract
\* and a 10/16-session purchase gets a terminal record in that run and no course
\* record.
C5_MembershipBeatsCourse ==
  [][(req'.op = "sync" /\ req'.type = "trials" /\ req'.execute = "true") =>
       LET candidates == sliceRows(trialsToCheck(conversions, trialBookings), 999)
           written == (Len(conversions) + 1)..Len(conversions')
       IN \A t \in 1..Len(candidates) :
            LET trial == candidates[t]
            IN ( /\ tenantOf(trial.city) # NULL
                 /\ hasContract(tenantOf(trial.city), trial.memberId)
                 /\ hasCoursePurchase(tenantOf(trial.city), trial.memberId) )
               => /\ \E j \in written :
                       /\ conversions'[j].memberId = trial.memberId
                       /\ conversions'[j].city = trial.city
                       /\ conversions'[j].membershipType \in {"flex", "loyalty"}
                  /\ \A j \in written :
                       ( conversions'[j].memberId = trial.memberId
                         /\ conversions'[j].city = trial.city )
                       => conversions'[j].membershipType # "course"
    ]_vars

\* an executed syncTrials run wrote a terminal record for a trial whose member has a
\* contract and a course package on the platform
C5_Witness ==
  /\ executed /\ req.type = "trials" /\ resp.trials.conversionsCreated > 0
  /\ \E i \in 1..Len(conversions) :
       /\ conversions[i].source = "trial"
       /\ conversions[i].membershipType \in {"flex", "loyalty"}
       /\ conversions[i].hadCourseStep = FALSE
       /\ tenantOf(conversions[i].city) # NULL
       /\ hasCoursePurchase(tenantOf(conversions[i].city), conversions[i].memberId)
       /\ hasContract(tenantOf(conversions[i].city), conversions[i].memberId)

\* the rows that are not the prospect (memberId, country): a trial row, a guest row
\* or a conversion record belongs to the prospect when it carries the member id and
\* its city resolves to the country
withoutProspect(rows, memberId, country) ==
  SelectSeq(rows, LAMBDA r : ~( /\ r.memberId = memberId
                                /\ r.city # NULL
                                /\ getCountryFromCity(r.city) = country ))

\* the conversion records of the prospect (memberId, country)
recordsOf(conv, memberId, country) ==
  SelectSeq(conv, LAMBDA r : /\ r.memberId = memberId
                             /\ r.city # NULL
                             /\ getCountryFromCity(r.city) = country)

\* C6 as stated, for one executed syncGuests run from any store the runs reach: the
\* conversion records of a prospect after the run are the same whether or not the
\* prospect with the same member id on the other tenant, its guest row and its
\* conversion records exist.
C6_OtherTenantDoesNotMatter ==
  \A memberId \in {"500", "501"} :
    \A one \in {"NL", "DE"}, other \in {"NL", "DE"} :
      \A countryParam \in {"nl", "de"} :
        one # other =>
          recordsOf(syncGuests(conversions, guests, trialBookings, platform,
                               countryParam, FALSE).conv, memberId, one)
          = recordsOf(syncGuests(withoutProspect(conversions, memberId, other),
                                 withoutProspect(guests, memberId, other),
                                 withoutProspect(trialBookings, memberId, other),
                                 platform, countryParam, FALSE).conv, memberId, one)

\* C7 as stated: with two executed sync runs interleaved at their awaits, no two
\* flex/loyalty records carry the same (memberId, city).
C7_NoTwoTerminalRecordsWhenInterleaved ==
  \A i, j \in 1..Len(conversions) :
     ( /\ i < j
       /\ conversions[i].membershipType \in {"flex", "loyalty"}
       /\ conversions[j].membershipType \in {"flex", "loyalty"}
       /\ conversions[i].memberId = conversions[j].memberId )
     => conversions[i].city # conversions[j].city

\* C8 as stated: a key with a flex/loyalty record has no course record.
C8_NoCourseRecordBesideTerminal ==
  \A key \in identityKeys : terminalRecords(key) # {} => courseRecords(key) = {}

\* an executed syncGuests run answered with 200
guestsRun ==
  req'.op = "sync" /\ req'.type = "guests" /\ req'.execute = "true" /\ resp'.status = 200

\* the guests of the country that were unconverted when the run began and whose
\* member has a contract on the tenant (rows of guests after the run)
convertibleGuests(country) ==
  { i \in 1..Len(guests') :
      /\ guests'[i].city # NULL
      /\ getCountryFromCity(guests'[i].city) = country
      /\ \A k \in 1..Len(guests) :
            guests[k].memberId = guests'[i].memberId => guests[k].convertedAt = NULL
      /\ hasContract(country, guests'[i].memberId) }

C10_GuestRecordHadCourseStep ==
  /\ \A i \in 1..Len(conversions) :
        ( conversions[i].source = "guest"
          /\ conversions[i].membershipType \in {"flex", "loyalty"} )
        => conversions[i].hadCourseStep = TRUE
  /\ \A i \in 1..Len(guests) :
        \A found \in determineConversionSource(conversions, guests, trialBookings,
                                               guests[i].memberId) :
           found.hadCourseStep = TRUE

\* ------------------------------------------------------------------------
\* Trial candidates and what one syncTrials run does with them
\* ------------------------------------------------------------------------
\* the step is an executed syncTrials run
trialsRun ==
  req'.op = "sync" /\ req'.type = "trials" /\ req'.execute = "true" /\ resp'.status = 200

\* the newest date among the member's 10- or 16-session purchases on the tenant
newestCoursePurchaseDate(country, memberId) ==
  LET ds == { platform[country].products[i].purchaseDate :
                i \in { j \in 1..Len(platform[country].products) :
                          /\ platform[country].products[j].memberId = memberId
                          /\ platform[country].products[j].initialQuantity \in {10, 16} } }
  IN CHOOSE d \in ds : \A e \in ds : DateRank(e) <= DateRank(d)

\* the records of the key the step added
insertedFor(memberId, city) ==
  { j \in (Len(conversions) + 1)..Len(conversions') :
      conversions'[j].memberId = memberId /\ conversions'[j].city = city }

\* the step inserted exactly one course record for the trial's key, dated with the
\* newest course purchase, and left the older records as they were
oneCourseRecordInserted(t) ==
  /\ Cardinality(insertedFor(t.memberId, t.city)) = 1
  /\ \A j \in insertedFor(t.memberId, t.city) :
        conversions'[j] =
          [memberId |-> t.memberId, city |-> t.city,
           memberSince |-> newestCoursePurchaseDate(tenantOf(t.city), t.memberId),
           membershipType |-> "course", source |-> "trial", hadCourseStep |-> FALSE]

\* the rows of a list of eligible trial rows whose member has a course purchase and
\* no contract on the tenant of the row's city
purchaseOnlyRows(ts) ==
  { i \in 1..Len(ts) :
      /\ tenantOf(ts[i].city) # NULL
      /\ hasCoursePurchase(tenantOf(ts[i].city), ts[i].memberId)
      /\ ~hasContract(tenantOf(ts[i].city), ts[i].memberId) }

\* C11: for every trial candidate a run processes (one of the first 999 trial rows
\* with no conversion record for their key) whose member has a 10- or 16-session
\* purchase and no contract on the tenant, an executed syncTrials run inserts exactly
\* one record (memberId, city), membershipType course, memberSince the newest
\* purchase date, source trial, hadCourseStep false.
C11_CourseRecordForProcessedCandidate ==
  [][trialsRun =>
       \A i \in purchaseOnlyRows(trialsToProcess(conversions, trialBookings)) :
          oneCourseRecordInserted(trialsToProcess(conversions, trialBookings)[i])]_vars

\* an executed syncTrials run inserted a course record for a trial whose member has
\* two course purchases of different dates and no contract, dated with the newer one
C11_Witness ==
  /\ executed /\ req.type = "trials" /\ resp.trials.conversionsCreated > 0
  /\ \E j \in 1..Len(conversions) : \E k, l \in 1..Len(platform["DE"].products) :
        /\ conversions[j].membershipType = "course"
        /\ conversions[j].source = "trial"
        /\ conversions[j].hadCourseStep = FALSE
        /\ tenantOf(conversions[j].city) = "DE"
        /\ ~hasContract("DE", conversions[j].memberId)
        /\ platform["DE"].products[k].memberId = conversions[j].memberId
        /\ platform["DE"].products[l].memberId = conversions[j].memberId
        /\ platform["DE"].products[k].initialQuantity \in {10, 16}
        /\ platform["DE"].products[l].initialQuantity \in {10, 16}
        /\ DateRank(platform["DE"].products[k].purchaseDate)
             < DateRank(platform["DE"].products[l].purchaseDate)
        /\ conversions[j].memberSince = platform["DE"].products[l].purchaseDate

\* the tenant of the city (any tenant when the city resolves to none) holds an active
\* contract for the member id
hasActiveContract(memberId, city) ==
  \E country \in PlatformCountries :
     /\ tenantOf(city) \in {NULL, country}
     /\ \E i \in 1..Len(platform[country].members) :
           /\ platform[country].members[i].id = memberId
           /\ \E k \in 1..Len(platform[country].members[i].contracts) :
                 platform[country].members[i].contracts[k].isActive = TRUE

\* the terminal records the step inserted or rewrote
terminalRecordsWritten ==
  { j \in 1..Len(conversions') :
      /\ conversions'[j].membershipType \in {"flex", "loyalty"}
      /\ (j <= Len(conversions) => conversions'[j] # conversions[j]) }

\* the guests the step marked converted
guestsMarkedConverted ==
  { i \in 1..Len(guests') :
      /\ guests'[i].convertedAt # NULL
      /\ \A k \in 1..Len(guests) :
            guests[k].memberId = guests'[i].memberId => guests[k].convertedAt = NULL }

\* C12 as stated: a sync run inserts or updates a terminal conversion record, or sets
\* a guest's convertedAt, only if the platform holds an active contract for that
\* member id; a member whose newest contract is ended or inactive causes neither.
C12_OnlyActiveMembershipsConvert ==
  [][(req'.op = "sync" /\ req'.execute = "true") =>
       /\ \A j \in terminalRecordsWritten :
             hasActiveContract(conversions'[j].memberId, conversions'[j].city)
       /\ \A i \in guestsMarkedConverted :
             hasActiveContract(guests'[i].memberId, guests'[i].city)]_vars

\* ------------------------------------------------------------------------
\* A run in which a bulk fetch fails
\* ------------------------------------------------------------------------
\* the step is an executed syncTrials run in which a bulk fetch of a tenant failed
trialsRunWithFault ==
  trialsRun /\ req'.fault.kind # "ok"

\* the step inserted or rewrote no conversion record whose city is of the tenant
noConversionWrittenFor(country) ==
  \A j \in 1..Len(conversions') :
     tenantOf(conversions'[j].city) = country
       => j <= Len(conversions) /\ conversions'[j] = conversions[j]

\* the run report's errors have an entry about the tenant
failureListed(country) ==
  \E k \in 1..Len(resp'.trials.errors) : resp'.trials.errors[k][2] = country

\* the records of the other tenants are those the run writes when no fetch fails
otherTenantsProcessed(country) ==
  LET r == handleRequest("trials", NULL, "true", conversions, guests, trialBookings,
                         platform).conv
  IN /\ Len(SelectSeq(r, LAMBDA c : tenantOf(c.city) # country))
          = Len(SelectSeq(conversions', LAMBDA c : tenantOf(c.city) # country))
     /\ \A j \in 1..Len(conversions') :
           tenantOf(conversions'[j].city) # country
             => \E i \in 1..Len(r) : r[i] = conversions'[j]

\* C13 as stated: if a bulk membership or purchase fetch of a tenant fails (timeout
\* or non-2xx on any page), the run writes no conversion for any candidate of that
\* tenant, the failure is listed in the run report's errors, and the other tenants
\* are still processed.
C13_FailedFetchWritesNothingAndIsReported ==
  [][trialsRunWithFault =>
       /\ noConversionWrittenFor(req'.fault.country)
       /\ failureListed(req'.fault.country)
       /\ otherTenantsProcessed(req'.fault.country)]_vars

\* ------------------------------------------------------------------------
\* Candidates whose city resolves to no tenant
\* ------------------------------------------------------------------------
\* the step is a syncTrials run, dry or executed
anyTrialsRun == req'.op = "sync" /\ req'.type = "trials" /\ resp'.status = 200

\* the candidates of the run whose city resolves to no tenant: no country for the
\* city, or no credentials for the country
unresolvedRows(ts) == { i \in 1..Len(ts) : tenantOf(ts[i].city) = NULL }

\* the report's errors have an entry for the candidate: one that names its city or
\* the country of its city
errorListedFor(t) ==
  \E k \in 1..Len(resp'.trials.errors) :
     resp'.trials.errors[k][2] \in {t.city, getCountryFromCity(t.city)} \ {NULL}

\* what the run writes when the unresolved candidates are not in trial_bookings
writtenWithoutUnresolved ==
  handleRequest("trials", NULL, req'.execute, conversions, guests,
                SelectSeq(trialBookings, LAMBDA t : tenantOf(t.city) # NULL),
                platform).conv

\* C14 as stated: when the city of a candidate resolves to no tenant, syncTrials
\* skips the candidate without aborting the run, processes the other candidates,
\* and the errors list has an entry for the unresolved candidate.
C14_UnresolvedCitySkippedAndListed ==
  [][anyTrialsRun =>
       \A i \in unresolvedRows(trialsToProcess(conversions, trialBookings)) :
          /\ resp'.success = TRUE
          /\ conversions' = writtenWithoutUnresolved
          /\ errorListedFor(trialsToProcess(conversions, trialBookings)[i])]_vars

\* ------------------------------------------------------------------------
\* The cap on one run
\* ------------------------------------------------------------------------
\* the eligible trial rows when the step begins, and the first 999 of them
eligibleRows == trialsToCheck(conversions, trialBookings)

rowsWithinCap == sliceRows(eligibleRows, 999)

\* C15: a syncTrials run processes at most 999 candidates: its report has
\* trialsChecked <= 999 and, when there is a candidate at all (the report of a run
\* without candidates carries no counters), trialsChecked + trialsRemaining = the
\* number of eligible candidates; and the run writes what it writes when the rows
\* beyond the cap are not in trial_bookings, so it neither reads nor writes a
\* conversion for them.
C15_AtMostMaxTrialsProcessed ==
  [][anyTrialsRun =>
       /\ resp'.trials.trialsChecked <= 999
       /\ SumRows(eligibleRows) > 0 =>
            resp'.trials.trialsChecked + resp'.trials.trialsRemaining
              = SumRows(eligibleRows)
       /\ resp'.trials.trialsChecked = SumRows(rowsWithinCap)
       /\ conversions' = handleRequest("trials", NULL, req'.execute, conversions, guests,
                                       rowsWithinCap, platform).conv]_vars

\* an executed syncTrials run checked 999 rows and left one, a row whose member has
\* a contract on its tenant, without a conversion record
C15_Witness ==
  /\ executed /\ req.type = "trials"
  /\ resp.trials.trialsChecked = 999 /\ resp.trials.trialsRemaining = 1
  /\ resp.trials.conversionsCreated > 0
  /\ \E i \in 1..Len(trialBookings) :
        /\ tenantOf(trialBookings[i].city) # NULL
        /\ hasContract(tenantOf(trialBookings[i].city), trialBookings[i].memberId)
        /\ \A j \in 1..Len(conversions) :
              ~( conversions[j].memberId = trialBookings[i].memberId
                 /\ conversions[j].city = trialBookings[i].city )

\* ------------------------------------------------------------------------
\* syncTrials run again and again
\* ------------------------------------------------------------------------
\* the last request was an executed syncTrials run that left candidates to a later run
deferringRun ==
  executed /\ req.type = "trials" /\ resp.trials.trialsRemaining > 0

\* the same run served once more writes nothing and leaves as many candidates: every
\* later run against these external facts does what this one does, and the
\* candidates it leaves are never processed
deferredForever ==
  /\ servedAgain.conv = conversions
  /\ servedAgain.response.trials.trialsRemaining = resp.trials.trialsRemaining

\* C16 as stated: when syncTrials is run again and again, a candidate that the cap
\* left unprocessed in one run is processed by a later run, whatever the number of
\* eligible candidates and the external facts.  Runs are deterministic, so the
\* claim fails as soon as a run that defers candidates is followed by a run that
\* changes nothing and defers as many: no run may reach such a state.
C16_DeferredEventuallyProcessed == deferringRun => ~deferredForever

\* ------------------------------------------------------------------------
\* Guests that are converted already
\* ------------------------------------------------------------------------
\* C17: an executed syncGuests run leaves every guest whose convertedAt is set when
\* the run starts as it is converted (same convertedAt) and inserts no conversion
\* record for its member id, also when the member is in the bulk purchase list and
\* in the membership map.
C17_ConvertedGuestNotEvaluated ==
  [][guestsRun =>
       \A i \in 1..Len(guests) :
          guests[i].convertedAt # NULL =>
            /\ guests'[i].memberId = guests[i].memberId
            /\ guests'[i].convertedAt = guests[i].convertedAt
            /\ \A j \in (Len(conversions) + 1)..Len(conversions') :
                  conversions'[j].memberId # guests[i].memberId]_vars

\* an executed syncGuests run met a converted guest whose member is in the purchase
\* list and whose newest contract is not the one it was converted with, and
\* converted nobody
C17_Witness ==
  /\ executed /\ req.type = "guests" /\ resp.guests.guestsConverted = 0
  /\ countryParamMap(req.country) \in PlatformCountries
  /\ \E i \in 1..Len(guests) :
        /\ guests[i].convertedAt # NULL
        /\ hasCoursePurchase(countryParamMap(req.country), guests[i].memberId)
        /\ hasContract(countryParamMap(req.country), guests[i].memberId)
        /\ contractOf(countryParamMap(req.country), guests[i].memberId).startDate
             # guests[i].convertedAt

\* ------------------------------------------------------------------------
\* Conversion records without a city
\* ------------------------------------------------------------------------
\* the member ids that have a flex or loyalty record without a city
memberIdsWithCitylessTerminal ==
  { conversions[i].memberId :
      i \in { j \in 1..Len(conversions) :
                /\ conversions[j].city = NULL
                /\ conversions[j].membershipType \in {"flex", "loyalty"} } }

\* C18 as stated: in the existing-conversion checks of the sync runs a record
\* without a city matches a candidate with the same member id whatever the
\* candidate's city, so an executed run inserts no flex or loyalty record for a
\* member id that has a city-less flex or loyalty record.
C18_CitylessRecordMatchesAnyCity ==
  [][(req'.op = "sync" /\ req'.execute = "true") =>
       \A j \in (Len(conversions) + 1)..Len(conversions') :
          conversions'[j].membershipType \in {"flex", "loyalty"}
            => conversions'[j].memberId \notin memberIdsWithCitylessTerminal]_vars

\* ------------------------------------------------------------------------
\* mapMembershipType on its own: a plan name is drawn, both copies are applied.
\* Here req holds the plan name and resp what the two copies return.
\* ------------------------------------------------------------------------
MaxWords == 3

Words ==
  { <<"L","o","y","a","l","t","y">>, <<"l","o","y","a","l","t","y">>,
    <<"l","o","y","a","l">>, <<"F","l","e","x">>, <<"f","l","e","x">>,
    <<"B","a","s","i","c">>, <<" ">> }

\* the names made of at most n words
RECURSIVE namesOfWords(_)
namesOfWords(n) ==
  IF n = 0 THEN { <<>> }
  ELSE namesOfWords(n - 1) \cup { s \o w : s \in namesOfWords(n - 1), w \in Words }

PlanInputs == namesOfWords(MaxWords) \cup { UndefinedName }

MapInit ==
  /\ conversions = <<>> /\ guests = <<>> /\ trialBookings = <<>>
  /\ platform = [c \in PlatformCountries |-> [members |-> <<>>, products |-> <<>>]]
  /\ pending = {}
  /\ runs = <<>>
  /\ \E n \in PlanInputs : req = [op |-> "mapMembershipType", paymentPlanName |-> n]
  /\ resp = NoResponse

\* the sync handlers and the webhook handler map the plan name
MapPlanName ==
  /\ resp = NoResponse
  /\ resp' = [sync |-> mapMembershipType(req.paymentPlanName),
              webhook |-> mapMembershipTypeOfWebhook(req.paymentPlanName)]
  /\ UNCHANGED <<conversions, guests, trialBookings, platform, pending, req, runs>>

MapNext == MapPlanName

MapSpec == MapInit /\ [][MapNext]_vars

\* the plan name in lower case, the empty string for an undefined one
lowerCasedName ==
  IF req.paymentPlanName = UndefinedName THEN <<>>
  ELSE toLowerCase(req.paymentPlanName)

\* C19: mapMembershipType returns loyalty if the lower-cased plan name contains
\* "loyalty" (also when it contains "flex" too) and flex otherwise, so its result is
\* always flex or loyalty; and the copy of the sync handlers and the copy of the
\* webhook handler return the same on every plan name, the empty and the undefined
\* one included.
C19_MapMembershipType ==
  resp # NoResponse =>
    /\ resp.sync \in {"flex", "loyalty"}
    /\ resp.sync = "loyalty"
         <=> includes(lowerCasedName, <<"l","o","y","a","l","t","y">>)
    /\ resp.webhook = resp.sync

\* a plan name with capitals that contains both loyalty and flex was mapped to loyalty
C19_Witness ==
  /\ resp # NoResponse
  /\ req.paymentPlanName # lowerCasedName
  /\ includes(lowerCasedName, <<"f","l","e","x">>)
  /\ includes(lowerCasedName, <<"l","o","y","a","l","t","y">>)
  /\ resp.sync = "loyalty" /\ resp.webhook = "loyalty"

\* ------------------------------------------------------------------------
\* Candidates without external facts
\* ------------------------------------------------------------------------
\* the rows of a list of eligible trial rows for which the run finds neither a
\* contract nor a course purchase
factlessRows(ts) ==
  { i \in 1..Len(ts) :
      \/ tenantOf(ts[i].city) = NULL
      \/ /\ ~hasContract(tenantOf(ts[i].city), ts[i].memberId)
         /\ ~hasCoursePurchase(tenantOf(ts[i].city), ts[i].memberId) }

\* the number of rows the groups of the set stand for
RECURSIVE rowsOf(_, _)
rowsOf(ts, is) ==
  IF is = {} THEN 0
  ELSE LET i == CHOOSE k \in is : TRUE IN ts[i].rows + rowsOf(ts, is \ {i})

\* the row is eligible for the run that follows the step
stillEligible(t) ==
  \E k \in 1..Len(trialsToCheck(conversions', trialBookings')) :
     /\ trialsToCheck(conversions', trialBookings')[k].memberId = t.memberId
     /\ trialsToCheck(conversions', trialBookings')[k].city = t.city

\* C20: a trial candidate a syncTrials run processes for which the platform holds
\* neither a contract nor a 10- or 16-session purchase gets no conversion record, is
\* counted in trialsChecked and not in conversionsFound, and is eligible again when
\* the next run starts.
C20_CandidateWithoutFactsStaysEligible ==
  [][anyTrialsRun =>
       /\ \A i \in factlessRows(rowsWithinCap) :
             /\ insertedFor(rowsWithinCap[i].memberId, rowsWithinCap[i].city) = {}
             /\ stillEligible(rowsWithinCap[i])
       /\ resp'.trials.trialsChecked = SumRows(rowsWithinCap)
       /\ resp'.trials.conversionsFound + rowsOf(rowsWithinCap, factlessRows(rowsWithinCap))
            <= resp'.trials.trialsChecked]_vars

\* an executed syncTrials run wrote a record for one candidate and none for another
\* whose member has neither contract nor course purchase on its tenant
C20_Witness ==
  /\ executed /\ req.type = "trials"
  /\ resp.trials.conversionsCreated > 0
  /\ resp.trials.trialsChecked > resp.trials.conversionsFound
  /\ \E k \in 1..Len(trialsToCheck(conversions, trialBookings)) :
        LET t == trialsToCheck(conversions, trialBookings)[k]
        IN /\ tenantOf(t.city) # NULL
           /\ ~hasContract(tenantOf(t.city), t.memberId)
           /\ ~hasCoursePurchase(tenantOf(t.city), t.memberId)
           /\ rowsOf(trialsToCheck(conversions, trialBookings), 1..k) <= 999

\* ------------------------------------------------------------------------
\* Reads and writes of one run
\* ------------------------------------------------------------------------
\* C21 as stated: within one executed syncTrials run every read of existing
\* conversion records is completed before the first conversion write of the run:
\* no run that has written to conversions reads the table again.
C21_NoReadAfterWrite ==
  [][\A p \in Procs :
        ( /\ runs[p].kind = "trials"
          /\ runs[p].pc = "select"
          /\ runs'[p].pc = "write" )
        => ~runs[p].wrote]_vars

\* ------------------------------------------------------------------------
\* The order in which rows and platform records are iterated
\* ------------------------------------------------------------------------
\* the orders of a list
orders(list) ==
  { [i \in 1..Len(list) |-> list[f[i]]] :
      f \in { g \in [1..Len(list) -> 1..Len(list)] :
                \A i, j \in 1..Len(list) : g[i] = g[j] => i = j } }

\* two tables hold the same rows, as often
sameRows(a, b) ==
  /\ Len(a) = Len(b)
  /\ \A i \in 1..Len(a) :
        Cardinality({ k \in 1..Len(a) : a[k] = a[i] })
          = Cardinality({ k \in 1..Len(b) : b[k] = a[i] })

sameTables(r, q) == sameRows(r.conv, q.conv) /\ sameRows(r.guests, q.guests)

\* the platform with the product list and the member list of one tenant reordered
reordered(country, members, products) ==
  [platform EXCEPT ![country] = [members |-> members, products |-> products]]

\* the executed requests whose outcome is compared
OrderedRequests == { <<"trials", NULL>>, <<"guests", "de">>, <<"guests", "nl">> }

\* an executed run of the request from the current store
ranOn(r, gs, trials, plat) ==
  handleRequest(r[1], r[2], "true", conversions, gs, trials, plat)

\* the outcome does not depend on the order of the trial rows and of the guest rows
sameForEveryCandidateOrder(r) ==
  /\ \A ts \in orders(trialBookings) :
        sameTables(ranOn(r, guests, ts, platform), ranOn(r, guests, trialBookings, platform))
  /\ \A gs \in orders(guests) :
        sameRows(ranOn(r, gs, trialBookings, platform).conv,
                 ranOn(r, guests, trialBookings, platform).conv)

\* the outcome does not depend on the order of a tenant's bulk lists
sameForEveryRecordOrder(r) ==
  \A country \in PlatformCountries :
     \A ms \in orders(platform[country].members) :
        \A ps \in orders(platform[country].products) :
           sameTables(ranOn(r, guests, trialBookings, reordered(country, ms, ps)),
                      ranOn(r, guests, trialBookings, platform))

\* C22 as stated: with at most 999 eligible candidates, the conversions and guests
\* tables after an executed sync run are the same for every order of the candidates
\* and for every order of the bulk-fetched platform records.
C22_OrderIndependent ==
  SumRows(trialsToCheck(conversions, trialBookings)) <= 999 =>
    \A r \in OrderedRequests :
       sameForEveryCandidateOrder(r) /\ sameForEveryRecordOrder(r)

\* no member has two purchases of one tenant with the same purchaseDate
purchaseDatesDistinct ==
  \A country \in PlatformCountries :
     LET products == platform[country].products
     IN \A i, j \in 1..Len(products) :
           (i < j /\ products[i].memberId = products[j].memberId)
             => /\ products[i].purchaseDate # NULL
                /\ products[i].purchaseDate # products[j].purchaseDate

\* C22, amended: with at most 999 eligible candidates and no two purchases of one
\* member carrying the same purchaseDate, the conversions and guests tables after
\* an executed sync run are the same for every order of the candidates and for
\* every order of the bulk-fetched platform records.
C22_OrderIndependentForDistinctDates ==
  ( /\ SumRows(trialsToCheck(conversions, trialBookings)) <= 999
    /\ purchaseDatesDistinct )
  => \A r \in OrderedRequests :
        sameForEveryCandidateOrder(r) /\ sameForEveryRecordOrder(r)

\* a member with two purchases of different dates, several trial rows, and a
\* guest run that writes a terminal record
C22_Witness ==
  /\ purchaseDatesDistinct
  /\ SumRows(trialsToCheck(conversions, trialBookings)) <= 999
  /\ Len(trialBookings) >= 2
  /\ \E i, j \in 1..Len(platform["DE"].products) :
        /\ i < j
        /\ platform["DE"].products[i].memberId = platform["DE"].products[j].memberId
  /\ Len(ranOn(<<"guests", "de">>, guests, trialBookings, platform).conv)
        > Len(conversions)

\* ------------------------------------------------------------------------
\* Dry run and executed run from the same state
\* ------------------------------------------------------------------------
\* the JSON response of a request served from the current state
reportOf(type, country, execute) ==
  handleRequest(type, country, execute, conversions, guests, trialBookings, platform).response

\* the countries a guest sync is requested for
GuestCountries == {"de", "nl"}

dryTrialsFoundAsExecuted ==
  reportOf("trials", NULL, "false").trials.conversionsFound
    = reportOf("trials", NULL, "true").trials.conversionsFound

dryGuestsToConvertAsExecuted(country) ==
  reportOf("guests", country, "false").guests.guestsToConvert
    = reportOf("guests", country, "true").guests.guestsConverted

\* C23 as stated: from the same state a dry run of syncTrials reports the
\* conversionsFound of the executed run, and a dry run of syncGuests reports as
\* guestsToConvert the guestsConverted of the executed run.
C23_DryRunPredictsExecutedRun ==
  /\ dryTrialsFoundAsExecuted
  /\ \A country \in GuestCountries : dryGuestsToConvertAsExecuted(country)

\* ------------------------------------------------------------------------
\* The newest purchase of a member
\* ------------------------------------------------------------------------
\* the member's 10- or 16-session purchases on the tenant with the latest purchaseDate
newestCoursePurchases(country, memberId) ==
  { p \in { platform[country].products[i] : i \in 1..Len(platform[country].products) } :
      /\ p.memberId = memberId
      /\ p.initialQuantity \in {10, 16}
      /\ p.purchaseDate = newestCoursePurchaseDate(country, memberId) }

\* the course records an executed syncTrials run inserts carry the latest purchaseDate
courseRecordsOfNewestPurchase ==
  \A j \in (Len(conversions) + 1)..Len(conversions') :
     conversions'[j].membershipType = "course" =>
       conversions'[j].memberSince
         = newestCoursePurchaseDate(tenantOf(conversions'[j].city), conversions'[j].memberId)

\* the guest rows an executed syncGuests run creates carry the credits, the package
\* size and the start date of a purchase with the latest purchaseDate
createdGuestsOfNewestPurchase(country) ==
  \A j \in (Len(guests) + 1)..Len(guests') :
     \E p \in newestCoursePurchases(country, guests'[j].memberId) :
        /\ guests'[j].creditsLeft = p.currentQuantity
        /\ guests'[j].packageSize = p.initialQuantity
        /\ guests'[j].startDate = p.purchaseDate

\* the guest rows whose credits or package size the run changes get those of a
\* purchase with the latest purchaseDate
updatedGuestsOfNewestPurchase(country) ==
  \A i \in 1..Len(guests) :
     ( \/ guests'[i].creditsLeft # guests[i].creditsLeft
       \/ guests'[i].packageSize # guests[i].packageSize )
     => \E p \in newestCoursePurchases(country, guests'[i].memberId) :
           /\ guests'[i].creditsLeft = p.currentQuantity
           /\ guests'[i].packageSize = p.initialQuantity

canonicalCity(city) ==
  IF normalizedCity(city) = "antwerpen" THEN "antwerp" ELSE normalizedCity(city)

\* a flex or loyalty record of the member whose city has the canonical form of `city`
hasTerminalForCanonicalCity(memberId, city) ==
  \E i \in 1..Len(conversions) :
     /\ conversions[i].memberId = memberId
     /\ conversions[i].city # NULL
     /\ conversions[i].membershipType \in {"flex", "loyalty"}
     /\ canonicalCity(conversions[i].city) = canonicalCity(city)

\* C25 as stated: city labels are compared in canonical form, so no executed sync
\* run inserts a flex or loyalty record for a member id and city when the member id
\* already has one stored with a city of the same canonical form ('berlin' for a
\* prospect with city 'Berlin').
C25_CityComparedInCanonicalForm ==
  [][(req'.op = "sync" /\ req'.execute = "true") =>
       \A j \in (Len(conversions) + 1)..Len(conversions') :
          ( /\ conversions'[j].city # NULL
            /\ conversions'[j].membershipType \in {"flex", "loyalty"} )
          => ~hasTerminalForCanonicalCity(conversions'[j].memberId, conversions'[j].city)]_vars

\* ------------------------------------------------------------------------
\* The event webhook: POST /api/webhooks/event with a ContractCreated or a
\* Purchase payload, delivered between sync requests.
\* ------------------------------------------------------------------------
MaxConversions == 3

\* a payload field that is absent
missing(field) == field = NULL

\* !paymentPlanName: undefined or the empty string
missingName(name) == name = UndefinedName \/ name = <<>>

\* an update that writes the fields of `set` and clears convertedAt
guestsResetWhere(gs, memberId, set) ==
  [i \in 1..Len(gs) |->
     IF gs[i].memberId = memberId
     THEN [f \in DOMAIN gs[i] |->
             IF f = "convertedAt" THEN NULL
             ELSE IF f \in DOMAIN set THEN set[f] ELSE gs[i][f]]
     ELSE gs[i]]

\* the rows of guests with the member id get the fields of `set`
guestsUpdatedWhere(gs, memberId, set) ==
  [i \in 1..Len(gs) |->
     IF gs[i].memberId = memberId
     THEN [f \in DOMAIN gs[i] |-> IF f \in DOMAIN set THEN set[f] ELSE gs[i][f]]
     ELSE gs[i]]

eventFailed(conv, gs, status) ==
  [conv |-> conv, guests |-> gs, response |-> [NoResponse EXCEPT !.status = status]]

eventDone(conv, gs) ==
  [conv |-> conv, guests |-> gs,
   response |-> [NoResponse EXCEPT !.status = 200, !.success = TRUE]]

\* handleContractCreated once determineConversionSource has answered
contractCreatedWith(data, conversionSource, conv, gs) ==
  IF conversionSource.city = NULL THEN eventFailed(conv, gs, 400)
  ELSE eventDone(
         Append(conv, [memberId |-> data.userId, city |-> conversionSource.city,
                       memberSince |-> data.contractSignDate,
                       membershipType |-> mapMembershipTypeOfWebhook(data.paymentPlanName),
                       source |-> conversionSource.source,
                       hadCourseStep |-> conversionSource.hadCourseStep]),
         IF mapMembershipTypeOfWebhook(data.paymentPlanName) \in {"flex", "loyalty"}
         THEN guestsUpdatedWhere(gs, data.userId, [convertedAt |-> data.contractSignDate])
         ELSE gs)

\* handleContractCreated: the outcomes (one per row limit(1) may return)
handleContractCreated(data, conv, gs, trials) ==
  IF missing(data.userId) \/ missing(data.contractSignDate) \/ missingName(data.paymentPlanName)
  THEN { eventFailed(conv, gs, 400) }
  ELSE { contractCreatedWith(data, conversionSource, conv, gs) :
           conversionSource \in determineConversionSource(conv, gs, trials, data.userId) }

\* handlePurchase: both tables afterwards and the response
handlePurchase(data, conv, gs) ==
  IF \/ missing(data.memberId) \/ missing(data.city) \/ missing(data.start_date)
     \/ data.credits \notin {10, 16}
     \/ getCountryFromCity(data.city) = NULL
  THEN eventFailed(conv, gs, 400)
  ELSE IF \E i \in 1..Len(gs) : gs[i].memberId = data.memberId
  THEN eventDone(conv,
         guestsUpdatedWhere(gs, data.memberId,
           [creditsLeft |-> data.credits, city |-> data.city,
            startDate |-> data.start_date, packageSize |-> data.credits,
            convertedAt |-> NULL]))
  ELSE eventDone(conv,
         Append(gs, [memberId |-> data.memberId, creditsLeft |-> data.credits,
                     city |-> data.city, startDate |-> data.start_date,
                     packageSize |-> data.credits, convertedAt |-> NULL]))

eventRequest(event, memberId) ==
  [NoRequest EXCEPT !.op = "event", !.type = event, !.country = memberId]

\* the tables and the response as an event handler leaves them
RespondToEvent(event, memberId, r) ==
  /\ conversions' = r.conv
  /\ guests' = r.guests
  /\ resp' = r.response
  /\ req' = eventRequest(event, memberId)
  /\ UNCHANGED <<trialBookings, platform, pending, runs>>

\* POST { event: 'ContractCreated', data }
ContractCreated(data) ==
  /\ runs = <<>>
  /\ Len(conversions) < MaxConversions
  /\ \E r \in handleContractCreated(data, conversions, guests, trialBookings) :
        RespondToEvent("ContractCreated", data.userId, r)

\* POST { event: 'Purchase', data }
Purchase(data) ==
  /\ runs = <<>>
  /\ RespondToEvent("Purchase", data.memberId, handlePurchase(data, conversions, guests))

\* the payloads delivered
ContractPayloads ==
  { [userId |-> "500", contractSignDate |-> "2024-04-01", paymentPlanName |-> PlanLoyaltyFlex],
    [userId |-> "501", contractSignDate |-> "2024-05-10", paymentPlanName |-> PlanFlex],
    [userId |-> "500", contractSignDate |-> "2024-04-01", paymentPlanName |-> <<>>] }

PurchasePayloads ==
  { [memberId |-> "500", city |-> "berlin", start_date |-> "2024-05-10", credits |-> 10],
    [memberId |-> "500", city |-> "atlantis", start_date |-> "2024-05-10", credits |-> 16],
    [memberId |-> "501", city |-> "berlin", start_date |-> "2024-05-10", credits |-> 5] }

EventNext ==
  \/ \E data \in ContractPayloads : ContractCreated(data)
  \/ \E data \in PurchasePayloads : Purchase(data)

NextWithEvents == Next \/ EventNext

\* a prospect who booked a trial, bought a course package and signed a contract
EventScenarios ==
  { [conversions |-> <<>>, guests |-> <<>>,
     trials |-> <<Trial("500", "berlin", 1)>>,
     pending |-> { Buys("DE", Product("500", 10, 3, "2024-03-01", 1)),
                   Signs("DE", "500", Contract(TRUE, "2024-04-01", PlanLoyaltyFlex)) }] }

EventInit ==
  /\ \E sc \in EventScenarios :
        /\ conversions = sc.conversions
        /\ guests = sc.guests
        /\ trialBookings = sc.trials
        /\ pending = sc.pending
  /\ platform = [c \in PlatformCountries |-> [members |-> <<>>, products |-> <<>>]]
  /\ req = NoRequest
  /\ resp = NoResponse
  /\ runs = <<>>

EventSpec == EventInit /\ [][NextWithEvents]_vars

\* ------------------------------------------------------------------------
\* convertedAt of a guest
\* ------------------------------------------------------------------------
\* every guest row that has convertedAt set keeps it set in the step
convertedStaysConverted ==
  \A i \in 1..Len(guests) :
     guests[i].convertedAt # NULL =>
       /\ i <= Len(guests')
       /\ guests'[i].memberId = guests[i].memberId
       /\ guests'[i].convertedAt # NULL

purchaseEvent == req'.op = "event" /\ req'.type = "Purchase"

\* C26 as stated: once a guest's convertedAt is set, no operation (syncTrials,
\* syncGuests, syncAll, a ContractCreated event, a Purchase event) resets it.
C26_ConvertedAtNeverCleared == [][convertedStaysConverted]_vars

\* C26, amended: once a guest's convertedAt is set, no sync run and no
\* ContractCreated event resets it; only a Purchase event for the member does.
C26_ConvertedAtClearedOnlyByPurchase ==
  [][ /\ ~purchaseEvent => convertedStaysConverted
      /\ \A i \in 1..Len(guests) :
            (guests[i].convertedAt # NULL /\ req'.country # guests[i].memberId)
              => (i <= Len(guests') /\ guests'[i].convertedAt # NULL) ]_vars

\* a ContractCreated event was processed for a member whose guest row had been
\* converted by a sync run with another contract date, and the row is still converted
C26_Witness ==
  /\ req.op = "event" /\ req.type = "ContractCreated" /\ resp.status = 200
  /\ \E i \in 1..Len(guests) :
        /\ guests[i].memberId = req.country
        /\ guests[i].convertedAt # NULL
        /\ \E j \in 1..Len(conversions) :
              /\ conversions[j].memberId = guests[i].memberId
              /\ conversions[j].source = "guest"
              /\ j < Len(conversions)

\* ------------------------------------------------------------------------
\* ContractCreated and the terminal stage
\* ------------------------------------------------------------------------
\* C27 as stated: a ContractCreated event for a member whose identity key
\* (memberId, resolved city) already has a flex or loyalty record, written by an
\* earlier sync run or by an earlier delivery of the event, adds no second flex or
\* loyalty record for that key.
C27_ContractCreatedAddsNoSecondTerminal ==
  [][(req'.op = "event" /\ req'.type = "ContractCreated") =>
       \A j \in (Len(conversions) + 1)..Len(conversions') :
          conversions'[j].membershipType \in {"flex", "loyalty"} =>
            ~\E i \in 1..Len(conversions) :
                 /\ conversions[i].memberId = conversions'[j].memberId
                 /\ conversions[i].city = conversions'[j].city
                 /\ conversions[i].membershipType \in {"flex", "loyalty"}]_vars

\* ------------------------------------------------------------------------
\* Guest rows of another tenant
\* ------------------------------------------------------------------------
\* the guest rows whose city lies in a country other than the one synced
guestsOfOtherTenants(country) ==
  { i \in 1..Len(guests) :
      /\ guests[i].city # NULL
      /\ getCountryFromCity(guests[i].city) # NULL
      /\ getCountryFromCity(guests[i].city) # country }

\* C28 as stated: an executed syncGuests run for one country changes no guest row
\* (creditsLeft, packageSize, city, convertedAt) of a prospect of another country's
\* tenant, also when both tenants use the same raw member id.
C28_GuestsOfOtherTenantUnchanged ==
  [][guestsRun =>
       \A i \in guestsOfOtherTenants(countryParamMap(req'.country)) :
          /\ guests'[i].memberId = guests[i].memberId
          /\ guests'[i].creditsLeft = guests[i].creditsLeft
          /\ guests'[i].packageSize = guests[i].packageSize
          /\ guests'[i].city = guests[i].city
          /\ guests'[i].convertedAt = guests[i].convertedAt]_vars

\* ------------------------------------------------------------------------
\* Store failures: an await on the store in step 2 of syncGuests rejects; the
\* exception reaches the catch of syncGuests, which answers 500.  The writes
\* made before it stay.
\* ------------------------------------------------------------------------
\* the awaits of step 2: the update of the guest, the select and the insert
StoreAwaits == {"convert", "select", "insert"}

\* catch (error) { return NextResponse.json({ error: 'Internal Server Error' }, { status: 500 }) }
StoreFails(p) ==
  /\ runs[p].kind = "guests" /\ runs[p].pc \in StoreAwaits
  /\ runs' = [runs EXCEPT ![p].pc = "failed", ![p].todo = <<>>, ![p].existing = {}]
  /\ resp' = [NoResponse EXCEPT !.status = 500,
                !.guests = [NoGuestsReport EXCEPT !.ran = TRUE, !.status = 500,
                                                  !.error = "Internal Server Error"]]
  /\ UNCHANGED <<conversions, guests, trialBookings, platform, pending, req>>

StoreFaultNext == \E p \in Procs : StoreFails(p)

NextWithStoreFaults == ConcNext \/ StoreFaultNext

StoreFaultSpec == ConcInit /\ [][NextWithStoreFaults]_vars

\* no syncGuests run is between the update of a guest and the insert for it
noConversionInFlight ==
  \A p \in Procs : ~(runs[p].kind = "guests" /\ runs[p].pc \in {"select", "insert"})

\* C29 as stated: in every state the syncGuests runs reach, also after a run that
\* stopped on a store failure between two of its writes, a guest whose convertedAt
\* is set has a flex or loyalty conversion record for its member id.
C29_ConvertedGuestHasRecord ==
  noConversionInFlight =>
    \A i \in 1..Len(guests) :
       guests[i].convertedAt # NULL =>
         \E j \in 1..Len(conversions) :
            /\ conversions[j].memberId = guests[i].memberId
            /\ conversions[j].membershipType \in {"flex", "loyalty"}

\* ------------------------------------------------------------------------
\* The combined response of type=all
\* ------------------------------------------------------------------------
\* C30 as stated: a sync of kind all answers success=true with status 200 only if
\* both sub-runs succeeded; when the guest sub-run fails (country not one of nl, de,
\* ch, at, or missing tenant configuration) the combined response reports the failure.
C30_SyncAllReportsGuestFailure ==
  (req.op = "sync" /\ req.type = "all" /\ resp.guests.status # 200)
    => ~(resp.status = 200 /\ resp.success)

====
